---- MODULE Spec2Model ----
(***************************************************************************)
(* A model of the EDF+ file reader of src/src/reader.rs (EdfReader).       *)
(*                                                                         *)
(* The state is one reader instance over one file on disk.  The file is    *)
(* chosen by Init from a bounded family; Open decodes it the way           *)
(* EdfReader::open does (header, record layout, the two TAL passes), and   *)
(* the remaining actions are the reader's public operations.  Every        *)
(* operation records the call, the cursors before it and what it returned, *)
(* so that the contracts of the operations are state predicates.           *)
(*                                                                         *)
(* Beside that reader the state holds a second reader instance over the    *)
(* same file, and the TAL decoder at work on one slice, byte by byte.      *)
(***************************************************************************)
EXTENDS Integers, Sequences, FiniteSets, TLC

VARIABLES
    file,              \* the file on disk (never changes)
    status,            \* "closed" | "open" | "failed"
    header,            \* EdfReader.header
    signal_info,       \* EdfReader.signal_info
    sample_positions,  \* EdfReader.sample_positions
    header_size,       \* EdfReader.header_size
    record_size,       \* EdfReader.record_size
    annotations,       \* EdfReader.annotations
    file_position,     \* stream position of EdfReader.file, the one file handle
    call,              \* the last call: [op, signal, arg]
    before,            \* sample_positions when the last call started
    ret,               \* what the last call returned
    twin,              \* another EdfReader opened on the same file
    tal                \* parse_tal_data at work on one slice

\* the first reader and what is observed of it
reader_vars == << file, status, header, signal_info, sample_positions, header_size,
                  record_size, annotations, file_position, call, before, ret >>

\* what no operation of the first reader touches
beside == << twin, tal >>

vars == << reader_vars, beside >>

----------------------------------------------------------------------------
(* Bounds of the model *)

\* largest data-record count a header declares
MaxRecords == 2
\* largest sample count asked of one read
MaxCount == 3
\* seek positions range over -1 .. MaxSeek
MaxSeek == 5
\* bytes that may be missing at the end of the file
MaxCut == 1
\* content variants (sample pattern and TAL schedule) of the file family
MaxVariant == 2
\* longest slice of the slices made of every byte string over TalBytes
MaxSlice == 5

(* Program constants *)

\* crate::EDFLIB_TIME_DIMENSION, ticks per second
EDFLIB_TIME_DIMENSION == 10000000
\* records scanned by the counting pass
RecordsToScan == 100
\* capacity of time_in_txt and duration_in_txt
TimeTextLen == 32
\* capacity of the scratchpad of extract_timestamp
ScratchLen == 64

----------------------------------------------------------------------------
(* Small helpers *)

Min(a, b) == IF a < b THEN a ELSE b
Max(a, b) == IF a > b THEN a ELSE b
Abs(a) == IF a < 0 THEN -a ELSE a

\* Rust's `/` and `%` on i64 truncate toward zero
TruncDiv(a, b) == IF (a >= 0) = (b > 0) THEN Abs(a) \div Abs(b) ELSE -(Abs(a) \div Abs(b))
TruncRem(a, b) == a - b * TruncDiv(a, b)

RECURSIVE Pow10(_)
Pow10(e) == IF e <= 0 THEN 1 ELSE 10 * Pow10(e - 1)

\* the first n elements of s, and s without its first n elements
Take(s, n) == SubSeq(s, 1, Min(n, Len(s)))
Drop(s, n) == SubSeq(s, n + 1, Len(s))

----------------------------------------------------------------------------
(* The file family *)

AnnotationLabel == "EDF Annotations "

\* samples per record of an annotation signal of the family (slice of 14 bytes)
AnnSpr == 7

\* signal descriptors as the 256-byte signal header block declares them: an
\* annotation signal, a narrow digital range, the full 16-bit range, an inverted
\* digital range, and one with digital_min = digital_max
Ann == [label |-> AnnotationLabel,    spr |-> AnnSpr, dmin |-> -32768, dmax |-> 32767, pmin |-> -1,   pmax |-> 1]
Fp1 == [label |-> "EEG Fp1         ", spr |-> 1, dmin |-> -2,     dmax |-> 2,     pmin |-> -100, pmax |-> 100]
Fp2 == [label |-> "EEG Fp2         ", spr |-> 2, dmin |-> -32768, dmax |-> 32767, pmin |-> -100, pmax |-> 100]
ECG == [label |-> "ECG             ", spr |-> 1, dmin |-> 3,      dmax |-> -3,    pmin |-> -100, pmax |-> 100]
EMG == [label |-> "EMG             ", spr |-> 1, dmin |-> 1,      dmax |-> 1,     pmin |-> -100, pmax |-> 100]

\* a signal whose digital range is narrower than 16 bits on both sides
Cz == [label |-> "EEG Cz          ", spr |-> 3, dmin |-> -32000, dmax |-> 32000, pmin |-> -100, pmax |-> 100]

\* the signal lists of the file family, in declared (on-disk) order
SlotLists ==
    { << Fp2 >>, << ECG >>, << Ann >>, << EMG >>, << Cz >>,
      << Ann, Fp2 >>, << Fp1, Ann >>, << Ann, EMG >>,
      << Fp1, Ann, Fp2 >>, << Ann, Ann, Fp1 >> }

\* 16-bit words stored in sample slots, as (low byte, high byte)
RawWords == << <<0, 128>>, <<255, 127>>, <<1, 0>>, <<255, 255>>, <<0, 1>>, <<253, 255>>, <<2, 0>> >>

\* the layout of a data record as the writer of a file lays it out
SlotBytes(slots, s) == 2 * slots[s].spr
RECURSIVE SlotStart(_, _)
SlotStart(slots, s) == IF s <= 1 THEN 0 ELSE SlotStart(slots, s - 1) + SlotBytes(slots, s - 1)
RecordBytes(slots) == SlotStart(slots, Len(slots) + 1)

\* the record-start time text of record r: whole seconds, a jump, or half seconds
TimestampText(v, r) ==
    CASE v = 0 -> << 43, 48 + r >>
      [] v = 1 -> << 43, 48 + 1 + 4 * r >>
      [] OTHER -> << 43, 48 + r, 46, 53 >>

\* the bytes of an annotation slice: the timestamp TAL, one user TAL, NUL padding
TalSlice(v, r, nbytes) ==
    LET tals == TimestampText(v, r) \o << 20, 20, 0 >>
                \o << 43, 48 + r, 20, 65 + v, 20 >>
    IN  [ k \in 1..nbytes |-> IF k <= Len(tals) THEN tals[k] ELSE 0 ]

\* the bytes of slot s of record r: TAL bytes, or the samples' words
SlotData(slots, s, r, v) ==
    IF slots[s].label = AnnotationLabel
    THEN TalSlice(v, r, SlotBytes(slots, s))
    ELSE [ b \in 1..SlotBytes(slots, s) |->
             LET p == r * slots[s].spr + ((b - 1) \div 2)
             IN  RawWords[((p + 2 * s) % Len(RawWords)) + 1][((b - 1) % 2) + 1] ]

RECURSIVE RecordData(_, _, _, _)
RecordData(slots, s, r, v) ==
    IF s > Len(slots) THEN << >>
    ELSE SlotData(slots, s, r, v) \o RecordData(slots, s + 1, r, v)

RECURSIVE AllRecords(_, _, _, _)
AllRecords(slots, r, n, v) ==
    IF r >= n THEN << >> ELSE RecordData(slots, 1, r, v) \o AllRecords(slots, r + 1, n, v)

----------------------------------------------------------------------------
(* The main header: the fields parse_header validates *)

\* crate::EDFLIB_MAXSIGNALS, the largest signal count a header may declare
EDFLIB_MAXSIGNALS == 640

\* a header field of n bytes: the text, padded with spaces
Padded(text, n) == text \o [ i \in 1..(n - Len(text)) |-> 32 ]

\* str::trim on a field: the bytes between the first and the last byte that
\* is not white space
Trim(text) ==
    LET solid == { i \in 1..Len(text) : text[i] \notin {32, 9, 10, 11, 12, 13} }
    IN  IF solid = {} THEN << >>
        ELSE SubSeq(text, CHOOSE i \in solid : \A j \in solid : i <= j,
                          CHOOSE i \in solid : \A j \in solid : i >= j)

\* str::starts_with
StartsWith(text, prefix) ==
    Len(text) >= Len(prefix) /\ SubSeq(text, 1, Len(prefix)) = prefix

\* the names of the main-header fields a file of the family may have wrong
FaultNames == { "version", "count", "size", "reserved", "date" }

\* the main header of a file with the given signal list whose fields named in
\* `faults` are wrong (in the w-th way) and whose other fields are right.  The
\* numeric fields are held as atoi_nonlocalized reads them, the date and the
\* time as their dotted components so read.
MainOf(slots, faults, w) ==
    LET n == IF "count" \notin faults THEN Len(slots)
             ELSE IF w = 0 THEN 0 ELSE EDFLIB_MAXSIGNALS + 1
    IN  [ version |-> IF "version" \in faults
                      THEN (IF w = 0 THEN Padded(<< 49 >>, 8) ELSE Padded(<< >>, 8))
                      ELSE (IF w = 0 THEN Padded(<< 48 >>, 8) ELSE Padded(<< 32, 48 >>, 8)),
          signals |-> n,
          header_size |-> IF "size" \in faults
                          THEN (IF w = 0 THEN (n + 1) * 256 + 256 ELSE 0)
                          ELSE (n + 1) * 256,
          reserved |-> IF "reserved" \in faults
                       THEN (IF w = 0 THEN Padded(<< >>, 44)
                             ELSE Padded(<< 69, 68, 70, 43, 68 >>, 44))
                       ELSE Padded(<< 69, 68, 70, 43, 67 >>, 44),
          date |-> IF "date" \in faults /\ w = 0 THEN << 30, 2, 24 >> ELSE << 29, 2, 24 >>,
          time |-> IF "date" \in faults /\ w = 1 THEN << 12, 60 >> ELSE << 23, 59, 59 >> ]

\* a file: its main header, the signal descriptors and record count its header
\* declares, and the bytes that follow the header (the declared records, `cut`
\* bytes short)
MakeFile(slots, n, v, cut) ==
    LET all == AllRecords(slots, 0, n, v)
    IN  [ main |-> MainOf(slots, {}, 0), slots |-> slots, datarecords |-> n,
          data |-> SubSeq(all, 1, Max(Len(all) - cut, 0)) ]

\* the files the reader operations are exercised on
Files ==
    { MakeFile(slots, n, 0, cut) :
        slots \in SlotLists, n \in (-1)..MaxRecords, cut \in 0..MaxCut }

\* signal lists with a descriptor whose physical or digital range is a single
\* value: an annotation signal, an ordinary signal (physical range; both
\* ranges; digital range), alone and after or before a valid one
FlatLists ==
    { << [Ann EXCEPT !.pmin = 1, !.dmin = 32767], Fp1 >>,
      << [Ann EXCEPT !.pmin = 1] >>,
      << [Fp1 EXCEPT !.pmin = 100] >>,
      << [EMG EXCEPT !.pmin = 100] >>,
      << Fp2, [Fp1 EXCEPT !.pmin = 100] >>,
      << EMG, [Fp1 EXCEPT !.pmin = 100] >>,
      << [Fp1 EXCEPT !.pmin = 100], EMG >> }

\* signal lists with a descriptor of zero samples per record: an ordinary
\* signal, and an annotation signal first and second among the annotation signals
ZeroLists ==
    { << [Fp1 EXCEPT !.spr = 0], Fp2 >>,
      << [Ann EXCEPT !.spr = 0], Fp1 >>,
      << Fp1, Ann, [Ann EXCEPT !.spr = 0] >> }

\* files of one record whose main header has any set of its fields wrong, over
\* a valid signal list and over lists whose first or second signal has a
\* single-valued range
FaultyFiles ==
    { [ MakeFile(slots, 1, 0, 0) EXCEPT !.main = MainOf(slots, faults, w) ] :
        slots \in { << Fp1, Ann >>, << [Fp1 EXCEPT !.pmin = 100], EMG >>,
                    << EMG, [Fp1 EXCEPT !.pmin = 100] >> },
        faults \in SUBSET FaultNames, w \in 0..1 }

\* the files open is exercised on: every TAL schedule as well
OpenFiles ==
    { MakeFile(slots, n, v, cut) :
        slots \in SlotLists \cup FlatLists \cup ZeroLists,
        n \in (-1)..MaxRecords, v \in 0..MaxVariant, cut \in 0..MaxCut }
    \cup FaultyFiles

FileHeaderBytes(f) == (Len(f.slots) + 1) * 256

----------------------------------------------------------------------------
(* The family of annotated files *)

\* samples per record of an annotation signal of the annotated files (slice of
\* 30 bytes)
TalSpr == 15

\* an annotation signal wide enough for several TALs per record
AnnWide == [label |-> AnnotationLabel, spr |-> TalSpr, dmin |-> -32768, dmax |-> 32767, pmin |-> -1, pmax |-> 1]
\* annotation signals of 2 and of 6 bytes per record
AnnTiny == [label |-> AnnotationLabel, spr |-> 1, dmin |-> -32768, dmax |-> 32767, pmin |-> -1, pmax |-> 1]
AnnNote == [label |-> AnnotationLabel, spr |-> 3, dmin |-> -32768, dmax |-> 32767, pmin |-> -1, pmax |-> 1]

\* the decimal text a writer gives a tick count: the digits of the seconds, then
\* `.` and the seven digits of the fraction without their trailing zeros
RECURSIVE DigitsOf(_)
DigitsOf(n) == IF n < 10 THEN << 48 + n >> ELSE Append(DigitsOf(n \div 10), 48 + (n % 10))

RECURSIVE PaddedDigits(_, _)
PaddedDigits(n, width) ==
    IF width = 0 THEN << >> ELSE Append(PaddedDigits(n \div 10, width - 1), 48 + (n % 10))

RECURSIVE FractionText(_, _)
FractionText(frac, width) ==
    IF frac % 10 = 0 THEN FractionText(frac \div 10, width - 1)
    ELSE PaddedDigits(frac, width)

OnsetText(ticks) ==
    << 43 >> \o DigitsOf(ticks \div EDFLIB_TIME_DIMENSION)
    \o IF ticks % EDFLIB_TIME_DIMENSION = 0 THEN << >>
       ELSE << 46 >> \o FractionText(ticks % EDFLIB_TIME_DIMENSION, 7)

\* one item of a slice as its writer meant it: a TAL `+onset 20 description 20`
\* followed by its NUL, or bytes that are no TAL
Tal(ticks, description) ==
    [ kind |-> "tal", ticks |-> ticks, description |-> description,
      bytes |-> OnsetText(ticks) \o << 20 >> \o description \o << 20, 0 >> ]
Raw(bytes) == [ kind |-> "raw", ticks |-> 0, description |-> << >>, bytes |-> bytes ]

\* a description that names the record, the annotation signal and the place in
\* the slice of its TAL
Tag(r, a, place) == << 65 + place + 4 * a + 8 * r >>

\* the kinds of slice of the family
SliceKinds ==
    { "events", "blank", "empties", "unstamped", "note",
      "reject", "badonset", "nul", "open", "openjump" }

\* the items of the slice of kind `kind` of record r and annotation signal a (the
\* a-th of the file, from 0), in a recording whose signal a counts time from
\* `sub` ticks: a record-start TAL (empty description) first, except in
\* "unstamped", "note" and "blank"
SliceItems(kind, r, a, sub) ==
    LET second == EDFLIB_TIME_DIMENSION
        start == r * second + sub
    IN  CASE kind = "events" ->
               << Tal(start, << >>), Tal(second, Tag(r, a, 1)),
                  Tal(second, Tag(r, a, 2)), Tal(0, Tag(r, a, 3)) >>
          [] kind = "empties" ->
               << Tal(start, << >>), Tal(2 * second, << >>), Tal(second, Tag(r, a, 2)) >>
          [] kind = "unstamped" ->
               << Tal(start, Tag(r, a, 0)), Tal(second, << >>) >>
          [] kind = "note" -> << Tal(0, << 65 >>) >>
          [] kind = "reject" ->
               << Tal(start, << >>), Tal(second, Tag(r, a, 1)),
                  Raw(<< 20 >>), Tal(2 * second, Tag(r, a, 3)) >>
          [] kind = "badonset" ->
               << Tal(start, << >>), Tal(second, Tag(r, a, 1)),
                  Raw(<< 43, 46, 53, 20, 33, 20, 0 >>),
                  Tal(2 * second, Tag(r, a, 3)) >>
          [] kind = "nul" ->
               << Tal(start, << >>), Tal(second, Tag(r, a, 1)),
                  Raw(<< 43, 50, 0, 20, 33, 20, 0 >>), Tal(2 * second, Tag(r, a, 3)) >>
          [] kind = "open" -> << Tal(start, << >>), Tal(second, Tag(r, a, 1)) >>
          [] kind = "openjump" -> << Tal(start + 4 * r * second, << >>) >>
          [] OTHER -> << >>

\* whether a slice of this kind ends with a NUL byte
Closed(kind) == kind \notin { "open", "openjump" }

RECURSIVE ItemBytes(_)
ItemBytes(items) ==
    IF items = << >> THEN << >> ELSE Head(items).bytes \o ItemBytes(Tail(items))

\* the bytes of a slice: its items, then NUL padding; a slice that is not
\* closed ends with a letter instead of a NUL
SliceBytes(text, closed, nbytes) ==
    [ k \in 1..nbytes |->
        IF k = nbytes /\ ~closed THEN 88
        ELSE IF k <= Len(text) THEN text[k] ELSE 0 ]

\* the place of annotation slot s among the annotation slots, from 0
AnnOrdinal(slots, s) ==
    Cardinality({ j \in 1..(s - 1) : slots[j].label = AnnotationLabel })

\* a script: the kind of slice and the time origin of every annotation signal
ScriptSlice(slots, s, r, script) ==
    SliceBytes(ItemBytes(SliceItems(script.kinds[AnnOrdinal(slots, s) + 1], r,
                                    AnnOrdinal(slots, s),
                                    script.subs[AnnOrdinal(slots, s) + 1])),
               Closed(script.kinds[AnnOrdinal(slots, s) + 1]),
               SlotBytes(slots, s))

RECURSIVE ScriptRecord(_, _, _, _)
ScriptRecord(slots, s, r, script) ==
    IF s > Len(slots) THEN << >>
    ELSE (IF slots[s].label = AnnotationLabel
          THEN ScriptSlice(slots, s, r, script)
          ELSE SlotData(slots, s, r, 0))
         \o ScriptRecord(slots, s + 1, r, script)

\* records lo .. hi - 1, one after the other
RECURSIVE ScriptRecords(_, _, _, _)
ScriptRecords(slots, lo, hi, script) ==
    IF lo >= hi THEN << >>
    ELSE IF hi - lo = 1 THEN ScriptRecord(slots, 1, lo, script)
    ELSE ScriptRecords(slots, lo, (lo + hi) \div 2, script)
         \o ScriptRecords(slots, (lo + hi) \div 2, hi, script)

\* the file a script describes, its last `cut` bytes missing
CutFile(slots, n, script, all, cut) ==
    [ main |-> MainOf(slots, {}, 0),
      slots |-> slots, datarecords |-> n, script |-> script, cut |-> cut,
      data |-> SubSeq(all, 1, Max(Len(all) - cut, 0)) ]

ScriptFile(slots, n, script, cut) ==
    CutFile(slots, n, script, ScriptRecords(slots, 0, n, script), cut)

\* time origins of an annotation signal: whole seconds, or an eighth of a second
Subs == { 0, EDFLIB_TIME_DIMENSION \div 8 }

\* the kinds of slice the wide annotation signals take
WideKinds == SliceKinds \ { "note" }

\* the annotated files: one or two wide annotation signals of every kind and
\* origin, whole or ending inside the last record or inside the one before it;
\* a file of more records than the counting pass scans; and a file whose
\* header is rejected
AnnotatedFiles ==
    { ScriptFile(<< Fp1, AnnWide >>, n, [kinds |-> << k >>, subs |-> << sub >>], cut) :
        n \in 1..MaxRecords, k \in WideKinds, sub \in Subs,
        cut \in { 0, 1, RecordBytes(<< Fp1, AnnWide >>) + 1 } }
    \cup
    { ScriptFile(<< AnnWide, Fp1, AnnWide >>, n,
                 [kinds |-> << k[1], k[2] >>, subs |-> << sub[1], sub[2] >>], cut) :
        n \in 1..MaxRecords, k \in WideKinds \X WideKinds, sub \in Subs \X Subs,
        cut \in { 0, 1, RecordBytes(<< AnnWide, Fp1, AnnWide >>) + 1 } }
    \cup
    { ScriptFile(<< AnnTiny, AnnNote >>, RecordsToScan + 1,
                 [kinds |-> << "blank", "note" >>, subs |-> << 0, 0 >>], cut) :
        cut \in 0..MaxCut }
    \cup
    { ScriptFile(<< AnnWide, EMG >>, 1, [kinds |-> << "events" >>, subs |-> << 0 >>], 0) }


\* the stream position at the end of the file
EndOfFile(f) == FileHeaderBytes(f) + Len(f.data)

\* the stream position a read_exact of n bytes at `at` leaves: past the bytes
\* read, or where the stream ran out
AfterReadExact(f, at, n) ==
    IF at + n > EndOfFile(f) THEN Max(at, EndOfFile(f)) ELSE at + n

\* seek to off and read_exact n bytes: the bytes [off, off + n), or failure
\* when the file ends first
ReadExact(f, off, n) ==
    LET d == off - FileHeaderBytes(f)
    IN  IF d + n > Len(f.data)
        THEN [ok |-> FALSE, bytes |-> << >>]
        ELSE [ok |-> TRUE, bytes |-> SubSeq(f.data, d + 1, d + n)]

----------------------------------------------------------------------------
(* Text to ticks *)

IsDigit(b) == b >= 48 /\ b <= 57

RECURSIVE DigitsValue(_)
DigitsValue(ds) ==
    IF ds = << >> THEN 0 ELSE 10 * DigitsValue(SubSeq(ds, 1, Len(ds) - 1)) + (ds[Len(ds)] - 48)

\* the ticks of an unsigned decimal text, given its integer and fraction digits
TicksOfParts(ip, fp) ==
    DigitsValue(ip) * EDFLIB_TIME_DIMENSION
      + (IF Len(fp) <= 7 THEN DigitsValue(fp) * Pow10(7 - Len(fp))
         ELSE DigitsValue(fp) \div Pow10(Len(fp) - 7))

\* the index of the '.' of a text, one past its end when it has none
DotIndex(num) ==
    IF \E i \in 1..Len(num) : num[i] = 46
    THEN CHOOSE i \in 1..Len(num) : num[i] = 46
    ELSE Len(num) + 1

TicksAtDot(num, dot) ==
    TicksOfParts(SubSeq(num, 1, dot - 1), SubSeq(num, dot + 1, Len(num)))

\* digits with at most one '.', and at least one digit
IsDecimal(num) ==
    /\ \A i \in 1..Len(num) : IsDigit(num[i]) \/ num[i] = 46
    /\ Cardinality({ i \in 1..Len(num) : num[i] = 46 }) <= 1
    /\ \E i \in 1..Len(num) : IsDigit(num[i])

Signed(neg, mag) == IF neg THEN -mag ELSE mag

ParseMagnitude(neg, num) ==
    IF IsDecimal(num)
    THEN [ok |-> TRUE, ticks |-> Signed(neg, TicksAtDot(num, DotIndex(num)))]
    ELSE [ok |-> FALSE, ticks |-> 0]

HasSign(text) == text # << >> /\ (text[1] = 45 \/ text[1] = 43)

\* str.parse::<f64>() followed by `(x * EDFLIB_TIME_DIMENSION as f64) as i64`, for
\* texts over sign, digits and '.'; any other byte makes the parse fail.  The
\* product is computed exactly, which is what the f64 arithmetic gives for the
\* short dyadic fractions (.5, .25, .125) and whole seconds of the file family.
ParseF64Ticks(text) ==
    ParseMagnitude(text # << >> /\ text[1] = 45,
                   IF HasSign(text) THEN Drop(text, 1) ELSE text)

\* trim_start_matches('+')
RECURSIVE TrimStartPlus(_)
TrimStartPlus(text) ==
    IF text # << >> /\ text[1] = 43 THEN TrimStartPlus(Drop(text, 1)) ELSE text

\* trim_end_matches('\0')
RECURSIVE TrimEndNul(_)
TrimEndNul(text) ==
    IF text # << >> /\ text[Len(text)] = 0
    THEN TrimEndNul(SubSeq(text, 1, Len(text) - 1)) ELSE text

\* the text before the first 0x14 of a slice, as extract_timestamp and
\* extract_subsecond_from_tal scan it: "none" when a NUL or the last byte of the
\* slice comes first, "panic" on an empty slice (data.len() - 1 underflows and the
\* index that follows is out of range)
RECURSIVE ScanFirstField(_, _, _)
ScanFirstField(data, k, scratch) ==
    IF Len(data) = 0 THEN [kind |-> "panic", text |-> << >>]
    ELSE IF k >= Len(data) - 1 THEN [kind |-> "none", text |-> << >>]
    ELSE LET byte == data[k + 1]
         IN  IF byte = 0 THEN [kind |-> "none", text |-> << >>]
             ELSE IF byte = 20 THEN [kind |-> "field", text |-> scratch]
             ELSE ScanFirstField(data, k + 1,
                      IF Len(scratch) < ScratchLen - 1 THEN Append(scratch, byte) ELSE scratch)

\* Ok(Some(ticks)) when the field parses, Ok(None) otherwise
TimestampOfText(p) ==
    IF p.ok THEN [kind |-> "some", ts |-> p.ticks] ELSE [kind |-> "none", ts |-> 0]

TimestampOfField(f) ==
    IF f.kind = "panic" THEN [kind |-> "panic", ts |-> 0]
    ELSE IF f.kind = "field" THEN TimestampOfText(ParseF64Ticks(TrimStartPlus(f.text)))
    ELSE [kind |-> "none", ts |-> 0]

extract_timestamp(data) == TimestampOfField(ScanFirstField(data, 0, << >>))

SubsecondOfText(p) == IF p.ok THEN TruncRem(p.ticks, EDFLIB_TIME_DIMENSION) ELSE 0

SubsecondOfField(f) ==
    IF f.kind = "field" THEN SubsecondOfText(ParseF64Ticks(TrimStartPlus(f.text))) ELSE 0

extract_subsecond_from_tal(data) == SubsecondOfField(ScanFirstField(data, 0, << >>))

\* is_valid_onset and is_valid_duration: not empty, no '.' first or last, digits
\* and at most one '.'
is_valid_onset(text) ==
    /\ text # << >>
    /\ text[1] # 46 /\ text[Len(text)] # 46
    /\ \A i \in 1..Len(text) : IsDigit(text[i]) \/ text[i] = 46
    /\ Cardinality({ i \in 1..Len(text) : text[i] = 46 }) <= 1

is_valid_duration(text) ==
    /\ text # << >>
    /\ text[1] # 46 /\ text[Len(text)] # 46
    /\ \A i \in 1..Len(text) : IsDigit(text[i]) \/ text[i] = 46
    /\ Cardinality({ i \in 1..Len(text) : text[i] = 46 }) <= 1

----------------------------------------------------------------------------
(* The full TAL decoder: parse_tal_data *)

\* time_in_txt[..copy_len] = scratchpad[..copy_len]; time_in_txt[copy_len] = 0
SaveText(buf, scratch) ==
    LET copy_len == Min(Len(scratch), Len(buf) - 1)
    IN  [ i \in 1..Len(buf) |->
            IF i <= copy_len THEN scratch[i] ELSE IF i = copy_len + 1 THEN 0 ELSE buf[i] ]

ZeroText == [ i \in 1..TimeTextLen |-> 0 ]

TalStart ==
    [ k |-> 0, state |-> "WaitingForOnset", scratch |-> << >>,
      time_in_txt |-> ZeroText, duration_in_txt |-> ZeroText,
      zero |-> 0, annots_in_record |-> 0, duration |-> FALSE,
      out |-> << >>, halt |-> FALSE ]

\* duration_time: the parsed duration text when a duration was collected, else -1
DurationTime(has_duration, dur) == IF has_duration /\ dur.ok THEN dur.ticks ELSE -1

\* an annotation pushed with the onset as the TAL gives it
AnnotationUnadjusted(onset, duration_time, description, subsecond) ==
    IF onset.ok
    THEN << [onset |-> onset.ticks, duration |-> duration_time,
             description |-> description] >>
    ELSE << >>

\* annotations.push(..) when the saved onset text parses
AnnotationOf(onset, duration_time, description, subsecond) ==
    IF onset.ok
    THEN << [onset |-> onset.ticks - subsecond, duration |-> duration_time,
             description |-> description] >>
    ELSE << >>

\* a decoder that takes no annotation for the record-start timestamp
NeverTimestamp(is_first_annotation_signal, annots_in_record, description) == FALSE

\* a decoder that takes every empty description for a record-start timestamp
EveryEmptyIsTimestamp(is_first_annotation_signal, annots_in_record, description) ==
    description = << >>

\* is_timestamp_annotation: the first annotation of the slice of the first
\* annotation signal, when its description is empty
is_timestamp_annotation(is_first_annotation_signal, annots_in_record, description) ==
    is_first_annotation_signal /\ annots_in_record = 0 /\ description = << >>

\* the annotation a completed TAL emits, or none: the timestamp annotation and a
\* TAL whose saved onset text does not parse emit nothing
EmitAnnotation(st, is_first_annotation_signal, subsecond) ==
    IF is_timestamp_annotation(is_first_annotation_signal, st.annots_in_record, st.scratch)
    THEN << >>
    ELSE AnnotationOf(ParseF64Ticks(TrimEndNul(st.time_in_txt)),
                      DurationTime(st.duration, ParseF64Ticks(TrimEndNul(st.duration_in_txt))),
                      st.scratch, subsecond)

\* a decoder that starts an onset at either sign
EitherSign(byte) == byte = 43 \/ byte = 45

\* b'+' in WaitingForOnset: the byte that starts an onset
IsOnsetSign(byte) == byte = 43

\* a decoder that reads on through NUL padding
NeverTooMany(zero) == FALSE

\* if zero > 1 { break; }: the byte comes after two or more NUL bytes
TooManyNuls(zero) == zero > 1

\* an iteration that leaves the byte index where it is
StepInPlace(data, is_first_annotation_signal, subsecond, st) == st

\* one iteration of the while loop of parse_tal_data
TalStep(data, is_first_annotation_signal, subsecond, st) ==
    LET byte == data[st.k + 1]
        next == [st EXCEPT !.k = st.k + 1, !.zero = 0]
        stop == [st EXCEPT !.halt = TRUE]
    IN  IF byte = 0
        THEN IF st.zero = 0
             THEN IF st.k > 0 /\ data[st.k] # 20
                  THEN stop
                  ELSE [st EXCEPT !.state = "WaitingForOnset", !.scratch = << >>,
                                  !.zero = 1, !.k = st.k + 1]
             ELSE [st EXCEPT !.zero = st.zero + 1, !.k = st.k + 1]
        ELSE IF TooManyNuls(st.zero) THEN stop
        ELSE CASE st.state = "WaitingForOnset" ->
                    IF IsOnsetSign(byte)
                    THEN [next EXCEPT !.state = "CollectingOnset", !.scratch = << >>]
                    ELSE IF byte = 20 \/ byte = 21 THEN stop
                    ELSE next
               [] st.state = "CollectingOnset" ->
                    IF byte = 20 \/ byte = 21
                    THEN IF ~is_valid_onset(st.scratch) THEN stop
                         ELSE [next EXCEPT
                                 !.time_in_txt = SaveText(st.time_in_txt, st.scratch),
                                 !.state = IF byte = 20 THEN "CollectingDescription"
                                           ELSE "CollectingDuration",
                                 !.scratch = << >>]
                    ELSE [next EXCEPT !.scratch = Append(st.scratch, byte)]
               [] st.state = "CollectingDuration" ->
                    IF byte = 20
                    THEN IF ~is_valid_duration(st.scratch) THEN stop
                         ELSE [next EXCEPT
                                 !.duration_in_txt = SaveText(st.duration_in_txt, st.scratch),
                                 !.duration = TRUE,
                                 !.state = "CollectingDescription",
                                 !.scratch = << >>]
                    ELSE IF byte = 21 THEN stop
                    ELSE [next EXCEPT !.scratch = Append(st.scratch, byte)]
               [] OTHER ->
                    IF byte = 20
                    THEN [next EXCEPT
                            !.out = st.out \o EmitAnnotation(st, is_first_annotation_signal, subsecond),
                            !.annots_in_record = st.annots_in_record + 1,
                            !.state = "WaitingForOnset",
                            !.duration = FALSE,
                            !.scratch = << >>,
                            !.time_in_txt = ZeroText,
                            !.duration_in_txt = ZeroText]
                    ELSE IF byte = 21 THEN stop
                    ELSE [next EXCEPT !.scratch = Append(st.scratch, byte)]

\* the iterations of the while loop for k = lo .. hi - 1, in order and up to
\* the first break: every iteration moves k by one.  The run is unfolded by
\* halves, which makes the same iterations in the same order
RECURSIVE TalRun(_, _, _, _, _, _)
TalRun(data, is_first_annotation_signal, subsecond, lo, hi, st) ==
    IF st.halt \/ lo >= hi THEN st
    ELSE IF hi - lo = 1 THEN TalStep(data, is_first_annotation_signal, subsecond, st)
    ELSE TalRun(data, is_first_annotation_signal, subsecond, (lo + hi) \div 2, hi,
                TalRun(data, is_first_annotation_signal, subsecond,
                       lo, (lo + hi) \div 2, st))

\* while k < max - 1
TalLoop(data, is_first_annotation_signal, subsecond, st) ==
    TalRun(data, is_first_annotation_signal, subsecond, 0, Len(data) - 1, st)

\* a decoder that gives up the whole slice when the loop broke off
NoneWhenBroken(st) == IF st.halt THEN << >> ELSE st.out

\* Ok(annotations): what was pushed by the time the loop ended or broke off
TalResult(st) == st.out

\* the annotations of one slice; a slice that is empty or does not end with NUL
\* yields none
parse_tal_data(data, is_first_annotation_signal, subsecond) ==
    IF Len(data) = 0 \/ data[Len(data)] # 0 THEN << >>
    ELSE TalResult(TalLoop(data, is_first_annotation_signal, subsecond, TalStart))

----------------------------------------------------------------------------
(* The counting TAL decoder: quick_parse_tal_for_count *)

CountStart ==
    [ k |-> 0, state |-> "WaitingForOnset", scratch |-> << >>, zero |-> 0,
      annots_in_record |-> 0, count |-> 0, halt |-> FALSE ]

\* one iteration of the while loop of quick_parse_tal_for_count
CountStep(data, is_first_annotation_signal, st) ==
    LET byte == data[st.k + 1]
        next == [st EXCEPT !.k = st.k + 1, !.zero = 0]
        stop == [st EXCEPT !.halt = TRUE]
    IN  IF byte = 0
        THEN IF st.zero = 0
             THEN IF st.k > 0 /\ data[st.k] # 20
                  THEN stop
                  ELSE [st EXCEPT !.state = "WaitingForOnset", !.scratch = << >>,
                                  !.zero = 1, !.k = st.k + 1]
             ELSE [st EXCEPT !.zero = st.zero + 1, !.k = st.k + 1]
        ELSE IF TooManyNuls(st.zero) THEN stop
        ELSE CASE st.state = "WaitingForOnset" ->
                    IF IsOnsetSign(byte)
                    THEN [next EXCEPT !.state = "CollectingOnset", !.scratch = << >>]
                    ELSE IF byte = 20 \/ byte = 21 THEN stop
                    ELSE next
               [] st.state = "CollectingOnset" ->
                    IF byte = 20 \/ byte = 21
                    THEN IF ~is_valid_onset(st.scratch) THEN stop
                         ELSE [next EXCEPT
                                 !.state = IF byte = 20 THEN "CollectingDescription"
                                           ELSE "CollectingDuration",
                                 !.scratch = << >>]
                    ELSE [next EXCEPT !.scratch = Append(st.scratch, byte)]
               [] st.state = "CollectingDuration" ->
                    IF byte = 20
                    THEN IF ~is_valid_duration(st.scratch) THEN stop
                         ELSE [next EXCEPT !.state = "CollectingDescription", !.scratch = << >>]
                    ELSE IF byte = 21 THEN stop
                    ELSE [next EXCEPT !.scratch = Append(st.scratch, byte)]
               [] OTHER ->
                    IF byte = 20
                    THEN LET is_timestamp ==
                                 is_first_annotation_signal /\ st.annots_in_record = 0
                                 /\ st.scratch = << >>
                         IN  [next EXCEPT
                                 !.count = IF is_timestamp THEN st.count ELSE st.count + 1,
                                 !.annots_in_record = st.annots_in_record + 1,
                                 !.state = "WaitingForOnset",
                                 !.scratch = << >>]
                    ELSE IF byte = 21 THEN stop
                    ELSE [next EXCEPT !.scratch = Append(st.scratch, byte)]

\* the iterations of the while loop for k = lo .. hi - 1, unfolded by halves as
\* in TalRun
RECURSIVE CountRun(_, _, _, _, _)
CountRun(data, is_first_annotation_signal, lo, hi, st) ==
    IF st.halt \/ lo >= hi THEN st
    ELSE IF hi - lo = 1 THEN CountStep(data, is_first_annotation_signal, st)
    ELSE CountRun(data, is_first_annotation_signal, (lo + hi) \div 2, hi,
                  CountRun(data, is_first_annotation_signal, lo, (lo + hi) \div 2, st))

\* while k < max - 1
CountLoop(data, is_first_annotation_signal, st) ==
    CountRun(data, is_first_annotation_signal, 0, Len(data) - 1, st)

\* (count, subsecond) of one slice
quick_parse_tal_for_count(data, is_first_record, is_first_annotation_signal) ==
    IF Len(data) = 0 \/ data[Len(data)] # 0 THEN << 0, 0 >>
    ELSE << CountLoop(data, is_first_annotation_signal, CountStart).count,
            IF is_first_record THEN extract_subsecond_from_tal(data) ELSE 0 >>

----------------------------------------------------------------------------
(* The header decoder: parse_signals and the record layout *)

IsAnnotation(d) == d.label = AnnotationLabel

\* offsets that count the user-visible slots only
RECURSIVE BufferOffsetOfUsers(_, _)
BufferOffsetOfUsers(descs, i) ==
    IF i <= 1 THEN 0
    ELSE BufferOffsetOfUsers(descs, i - 1)
         + (IF IsAnnotation(descs[i - 1]) THEN 0 ELSE descs[i - 1].spr * 2)

\* buffer_offset of slot i: 2 bytes per sample of every slot declared before it
RECURSIVE BufferOffset(_, _)
BufferOffset(descs, i) ==
    IF i <= 1 THEN 0 ELSE BufferOffset(descs, i - 1) + descs[i - 1].spr * 2

SignalInfoOf(descs) ==
    [ i \in 1..Len(descs) |->
        [ buffer_offset |-> BufferOffset(descs, i),
          samples_per_record |-> descs[i].spr,
          is_annotation |-> IsAnnotation(descs[i]) ] ]

SignalParamOf(d, datarecords) ==
    [ label |-> d.label,
      samples_in_file |-> d.spr * datarecords,
      physical_max |-> d.pmax, physical_min |-> d.pmin,
      digital_max |-> d.dmax, digital_min |-> d.dmin,
      samples_per_record |-> d.spr ]

\* a signal list that keeps the annotation signals
AllSignals(descs, datarecords) ==
    [ i \in 1..Len(descs) |-> SignalParamOf(descs[i], datarecords) ]

\* the user-visible signals: the non-annotation descriptors, in declared order
RECURSIVE UserSignals(_, _)
UserSignals(descs, datarecords) ==
    IF descs = << >> THEN << >>
    ELSE LET rest == UserSignals(Tail(descs), datarecords)
         IN  IF IsAnnotation(Head(descs)) THEN rest
             ELSE << SignalParamOf(Head(descs), datarecords) >> \o rest

\* a validation that does not spare the annotation signals
SignalErrorOfAny(descs) ==
    LET bad == { i \in 1..Len(descs) :
                   descs[i].pmin = descs[i].pmax \/ descs[i].dmin = descs[i].dmax }
        i0  == CHOOSE i \in bad : \A j \in bad : i <= j
    IN  IF bad = {} THEN "Ok"
        ELSE IF descs[i0].pmin = descs[i0].pmax THEN "PhysicalMinEqualsMax"
        ELSE "DigitalMinEqualsMax"

\* the error of the first non-annotation descriptor that fails validation
SignalError(descs) ==
    LET bad == { i \in 1..Len(descs) :
                   /\ ~IsAnnotation(descs[i])
                   /\ (descs[i].pmin = descs[i].pmax \/ descs[i].dmin = descs[i].dmax) }
        i0  == CHOOSE i \in bad : \A j \in bad : i <= j
    IN  IF bad = {} THEN "Ok"
        ELSE IF descs[i0].pmin = descs[i0].pmax THEN "PhysicalMinEqualsMax"
        ELSE "DigitalMinEqualsMax"

parse_signals(descs, datarecords) ==
    [ err |-> SignalError(descs),
      signals |-> UserSignals(descs, datarecords),
      signal_info |-> SignalInfoOf(descs),
      record_size |-> BufferOffset(descs, Len(descs) + 1) ]

\* the indexes into signal_info of the annotation signals, in order
AnnotationSignals(info) ==
    LET idx == { i \in 1..Len(info) : info[i].is_annotation }
        RECURSIVE Sorted(_)
        Sorted(S) == IF S = {} THEN << >>
                     ELSE LET m == CHOOSE x \in S : \A y \in S : x <= y
                          IN  << m >> \o Sorted(S \ {m})
    IN  Sorted(idx)

\* the slice of an annotation signal inside a record that was read
SliceOf(record_data, info_i) ==
    SubSeq(record_data, info_i.buffer_offset + 1,
           info_i.buffer_offset + info_i.samples_per_record * 2)

SliceFits(record_data, info_i) ==
    info_i.buffer_offset + info_i.samples_per_record * 2 <= Len(record_data)

----------------------------------------------------------------------------
(* The counting pass: count_annotations_and_parse_subsecond *)

\* annotation_count += record_annotations; the subsecond of record 0 when not 0
CountAdd(acc, q, record_idx) ==
    [acc EXCEPT !.count = @ + q[1],
                !.subsecond = IF record_idx = 0 /\ q[2] # 0 THEN q[2] ELSE @,
                !.ann_idx = @ + 1]

\* one annotation signal of one record
CountSlice(record_data, inf, record_idx, acc) ==
    IF SliceFits(record_data, inf)
    THEN CountAdd(acc,
                  quick_parse_tal_for_count(SliceOf(record_data, inf),
                                            record_idx = 0, acc.ann_idx = 0),
                  record_idx)
    ELSE [acc EXCEPT !.ann_idx = @ + 1]

\* the annotation signals of one record, folded in order
RECURSIVE CountSlices(_, _, _, _, _)
CountSlices(record_data, info, anns, record_idx, acc) ==
    IF anns = << >> THEN acc
    ELSE CountSlices(record_data, info, Tail(anns), record_idx,
                     CountSlice(record_data, info[Head(anns)], record_idx, acc))

\* one record of the counting pass, once read_exact returned rd; acc.ok turns
\* FALSE when `?` returns the error
CountRecord(info, record_idx, acc, rd) ==
    IF ~rd.ok THEN [acc EXCEPT !.ok = FALSE]
    ELSE CountSlices(rd.bytes, info, AnnotationSignals(info), record_idx,
                     [acc EXCEPT !.ann_idx = 0])

\* the for loop over records lo .. hi - 1, in order and up to the first error;
\* it is unfolded by halves, which visits the records in the same order
RECURSIVE CountRecords(_, _, _, _, _, _, _)
CountRecords(f, info, hsize, rsize, lo, hi, acc) ==
    IF ~acc.ok \/ lo >= hi THEN acc
    ELSE IF hi - lo = 1
    THEN CountRecord(info, lo, acc, ReadExact(f, hsize + lo * rsize, rsize))
    ELSE CountRecords(f, info, hsize, rsize, (lo + hi) \div 2, hi,
                      CountRecords(f, info, hsize, rsize, lo, (lo + hi) \div 2, acc))

\* Ok((annotation_count, starttime_subsecond)), or the error
CountEnd(acc) ==
    IF acc.ok THEN [ok |-> TRUE, count |-> acc.count, subsecond |-> acc.subsecond]
    ELSE [ok |-> FALSE, count |-> 0, subsecond |-> 0]

\* a counting pass that scans every record of the file
CountEveryRecord(f, info, datarecords, rsize, hsize) ==
    IF AnnotationSignals(info) = << >> THEN [ok |-> TRUE, count |-> 0, subsecond |-> 0]
    ELSE CountEnd(CountRecords(f, info, hsize, rsize, 0, datarecords,
                               [ok |-> TRUE, count |-> 0, subsecond |-> 0, ann_idx |-> 0]))

\* for record_idx in 0..datarecords.min(100), over the annotation signals
count_annotations_and_parse_subsecond(f, info, datarecords, rsize, hsize) ==
    IF AnnotationSignals(info) = << >> THEN [ok |-> TRUE, count |-> 0, subsecond |-> 0]
    ELSE CountEnd(CountRecords(f, info, hsize, rsize, 0, Min(datarecords, RecordsToScan),
                               [ok |-> TRUE, count |-> 0, subsecond |-> 0, ann_idx |-> 0]))

----------------------------------------------------------------------------
(* The full pass: parse_annotations *)

\* an insertion that puts an annotation before those of equal onset
InsertBeforeEqual(sorted, a) ==
    LET earlier == Cardinality({ i \in 1..Len(sorted) : sorted[i].onset < a.onset })
    IN  SubSeq(sorted, 1, earlier) \o << a >> \o SubSeq(sorted, earlier + 1, Len(sorted))

\* annotations.sort_by(onset): a stable sort
RECURSIVE InsertByOnset(_, _)
InsertByOnset(sorted, a) ==
    IF sorted = << >> THEN << a >>
    ELSE IF sorted[Len(sorted)].onset <= a.onset THEN Append(sorted, a)
    ELSE Append(InsertByOnset(SubSeq(sorted, 1, Len(sorted) - 1), a), sorted[Len(sorted)])

\* as[lo] .. as[hi - 1] inserted one after the other into `sorted`; the run is
\* unfolded by halves, which inserts them in the same order (the test of
\* `sorted` comes first so that it is computed before the run goes on)
RECURSIVE SortedInto(_, _, _, _)
SortedInto(sorted, as, lo, hi) ==
    IF sorted = << >> /\ lo >= hi THEN << >>
    ELSE IF lo >= hi THEN sorted
    ELSE IF hi - lo = 1 THEN InsertByOnset(sorted, as[lo])
    ELSE SortedInto(SortedInto(sorted, as, lo, (lo + hi) \div 2), as, (lo + hi) \div 2, hi)

SortByOnset(as) == SortedInto(<< >>, as, 1, Len(as) + 1)

\* the continuity check of a record-start timestamp against the previous one
Discontinuous(timestamp, elapsed_time, datarecord_duration) ==
    Abs(timestamp - (elapsed_time + datarecord_duration)) > EDFLIB_TIME_DIMENSION \div 1000

\* the record-start timestamp ts of the first annotation signal, applied to the
\* pass: the continuity check from record 1 on, the subsecond on record 0
Timed(acc, ts, record_idx, duration) ==
    IF acc.ann_idx # 0 \/ ts.kind = "none" THEN acc
    ELSE IF ts.kind = "panic" THEN [acc EXCEPT !.kind = "panic"]
    ELSE IF record_idx > 0
    THEN IF Discontinuous(ts.ts, acc.elapsed_time, duration)
         THEN [acc EXCEPT !.kind = "InvalidHeader"]
         ELSE [acc EXCEPT !.elapsed_time = ts.ts]
    ELSE IF ~acc.first_record_processed
    THEN [acc EXCEPT
            !.subsecond = IF @ = 0 THEN TruncRem(ts.ts, EDFLIB_TIME_DIMENSION) ELSE @,
            !.first_record_processed = TRUE,
            !.elapsed_time = ts.ts]
    ELSE [acc EXCEPT !.elapsed_time = ts.ts]

\* annotations.extend(parse_tal_data(..)) unless the pass already returned
Parsed(timed, data) ==
    IF timed.kind # "ok" THEN timed
    ELSE [timed EXCEPT
            !.anns = @ \o parse_tal_data(data, timed.ann_idx = 0, timed.subsecond)]

NextSlice(acc) == [acc EXCEPT !.ann_idx = @ + 1]

\* one annotation signal of one record
FullSlice(record_data, inf, record_idx, duration, acc) ==
    IF SliceFits(record_data, inf)
    THEN NextSlice(Parsed(Timed(acc, extract_timestamp(SliceOf(record_data, inf)),
                                record_idx, duration),
                          SliceOf(record_data, inf)))
    ELSE NextSlice(acc)

\* the annotation signals of one record, folded in order; acc.kind leaves "ok"
\* when the pass returns early
RECURSIVE FullSlices(_, _, _, _, _, _)
FullSlices(record_data, info, anns, record_idx, duration, acc) ==
    IF anns = << >> \/ acc.kind # "ok" THEN acc
    ELSE FullSlices(record_data, info, Tail(anns), record_idx, duration,
                    FullSlice(record_data, info[Head(anns)], record_idx, duration, acc))

\* one record of the full pass, once read_exact returned rd
FullRecord(f, hdr, info, hsize, rsize, record_idx, acc, rd) ==
    IF ~rd.ok
    THEN [acc EXCEPT !.kind = "FileReadError",
                     !.position = AfterReadExact(f, hsize + record_idx * rsize, rsize)]
    ELSE FullSlices(rd.bytes, info, AnnotationSignals(info), record_idx,
                    hdr.datarecord_duration,
                    [acc EXCEPT !.ann_idx = 0,
                                !.position = hsize + (record_idx + 1) * rsize])

\* the for loop over records lo .. hi - 1, in order and up to the first return;
\* it is unfolded by halves, which visits the records in the same order
RECURSIVE FullRecords(_, _, _, _, _, _, _, _)
FullRecords(f, hdr, info, hsize, rsize, lo, hi, acc) ==
    IF acc.kind # "ok" \/ lo >= hi THEN acc
    ELSE IF hi - lo = 1
    THEN FullRecord(f, hdr, info, hsize, rsize, lo, acc,
                    ReadExact(f, hsize + lo * rsize, rsize))
    ELSE FullRecords(f, hdr, info, hsize, rsize, (lo + hi) \div 2, hi,
                     FullRecords(f, hdr, info, hsize, rsize, lo, (lo + hi) \div 2, acc))

\* the locals of parse_annotations before the first record; position is the
\* stream position of the file handle, which the header decoder left at hsize
FullStart(hdr, hsize) ==
    [ kind |-> "ok", anns |-> << >>, elapsed_time |-> 0,
      first_record_processed |-> FALSE,
      subsecond |-> hdr.starttime_subsecond, ann_idx |-> 0, position |-> hsize ]

\* annotations.sort_by(..); Ok(annotations)
FullEnd(end) ==
    [ kind |-> end.kind, anns |-> SortByOnset(end.anns), subsecond |-> end.subsecond,
      position |-> end.position ]

\* kind: "ok" (Ok(anns), sorted), "InvalidHeader" or "FileReadError" (Err), "panic";
\* subsecond: header.starttime_subsecond as the pass leaves it; position: the
\* stream position it leaves
parse_annotations(f, hdr, info, hsize, rsize) ==
    IF AnnotationSignals(info) = << >> THEN FullEnd(FullStart(hdr, hsize))
    ELSE FullEnd(FullRecords(f, hdr, info, hsize, rsize, 0, hdr.datarecords_in_file,
                             FullStart(hdr, hsize)))

----------------------------------------------------------------------------
(* The sample access engine *)

\* i16::from_le_bytes([lo, hi]) as i32
\* the two bytes read as an unsigned 16-bit word
FromLeUnsigned(lo, hi) == lo + 256 * hi

\* i16::from_le_bytes([lo, hi]) as i32
FromLeBytes(lo, hi) ==
    LET u == lo + 256 * hi IN IF u >= 32768 THEN u - 65536 ELSE u

\* digital_value.max(digital_min).min(digital_max)
ClampDigital(v, signal_param) ==
    Min(Max(v, signal_param.digital_min), signal_param.digital_max)

\* the decoded, clamped samples of a buffer of whole 2-byte chunks
DecodeBuffer(buffer, signal_param) ==
    [ j \in 1..(Len(buffer) \div 2) |->
        ClampDigital(FromLeBytes(buffer[2 * j - 1], buffer[2 * j]), signal_param) ]

\* a slot found by counting every slot, the annotation slots too
SlotByOrdinal(info, signal) == signal + 1

\* the slot of signal_info that holds user signal `signal` (0-based): the
\* signal-th non-annotation slot in declared order, slot 0 when there is none
ActualSignalIdx(info, signal) ==
    LET hits == { i \in 1..Len(info) :
                    /\ ~info[i].is_annotation
                    /\ Cardinality({ j \in 1..(i - 1) : ~info[j].is_annotation }) = signal }
    IN  IF hits = {} THEN 1 ELSE CHOOSE i \in hits : TRUE

\* an offset that forgets the position inside the record
FileOffsetRecordStart(hsize, rsize, info_i, signal_param, pos) ==
    hsize + TruncDiv(pos, signal_param.samples_per_record) * rsize + info_i.buffer_offset

\* file offset of sample `pos` of a slot
FileOffset(hsize, rsize, info_i, signal_param, pos) ==
    LET record_index == TruncDiv(pos, signal_param.samples_per_record)
        sample_in_record == TruncRem(pos, signal_param.samples_per_record)
    IN  hsize + record_index * rsize + info_i.buffer_offset + sample_in_record * 2

\* an iteration that reads a single sample
OneSampleToRead(signal_param, pos, left) == 1

\* samples of the current record that one iteration reads
SamplesToRead(signal_param, pos, left) ==
    LET sample_in_record == TruncRem(pos, signal_param.samples_per_record)
    IN  Min(left, signal_param.samples_per_record - sample_in_record)

\* the while loop of read_digital_samples: one seek and one read_exact per
\* iteration; `io` lists the reads issued as (offset, bytes, succeeded) and
\* `position` is the stream position of the file handle
RECURSIVE ReadChunks(_, _, _, _, _, _, _, _, _, _)

\* a handle left where the previous read ended
SeekFromCurrent(position, file_offset) == position

\* self.file.seek(SeekFrom::Start(file_offset)): the stream position it sets
SeekFromStart(position, file_offset) == file_offset

\* read_exact of bytes_to_read bytes on a handle positioned at `at`
ReadAt(f, at, bytes_to_read) ==
    [ off |-> at, len |-> bytes_to_read,
      rd |-> ReadExact(f, at, bytes_to_read),
      position |-> AfterReadExact(f, at, bytes_to_read) ]

\* the seek and read_exact of one iteration: what was asked and what came back
ReadChunk(f, hsize, rsize, info_i, signal_param, pos, left, position) ==
    ReadAt(f,
           SeekFromStart(position, FileOffset(hsize, rsize, info_i, signal_param, pos)),
           SamplesToRead(signal_param, pos, left) * 2)

IoOf(c) == [off |-> c.off, len |-> c.len, ok |-> c.rd.ok]

\* the rest of one iteration, once the read c returned
AfterChunk(f, hsize, rsize, info_i, signal_param, current_pos, actual_count, samples, io, c) ==
    IF ~c.rd.ok
    THEN [kind |-> "FileReadError", samples |-> samples, io |-> Append(io, IoOf(c)),
          position |-> c.position]
    ELSE ReadChunks(f, hsize, rsize, info_i, signal_param, current_pos, actual_count,
                    samples \o DecodeBuffer(c.rd.bytes, signal_param), Append(io, IoOf(c)),
                    c.position)

ReadChunks(f, hsize, rsize, info_i, signal_param, current_pos, actual_count, samples, io, position) ==
    IF Len(samples) >= actual_count
    THEN [kind |-> "Ok", samples |-> samples, io |-> io, position |-> position]
    ELSE AfterChunk(f, hsize, rsize, info_i, signal_param, current_pos, actual_count,
                    samples, io,
                    ReadChunk(f, hsize, rsize, info_i, signal_param,
                              current_pos + Len(samples), actual_count - Len(samples),
                              position))

\* a cursor write that lands on every signal
SetCursorShared(positions, signal, value) == [ i \in DOMAIN positions |-> value ]

\* self.sample_positions[signal] = value
SetCursor(positions, signal, value) == [positions EXCEPT ![signal + 1] = value]

\* a cursor advanced chunk by chunk, so that a failed call keeps its progress
CursorsOnErrorPartial(positions, signal, samples_read) ==
    [positions EXCEPT ![signal + 1] = @ + samples_read]

\* the cursors after a seek or read_exact failed with samples_read samples
\* already decoded: `?` returns before sample_positions is written
CursorsOnError(positions, signal, samples_read) == positions

\* read_digital_samples on a reader whose cursors are `positions` and whose
\* file handle stands at `position`: what it returns, the cursors and the
\* stream position it leaves
\* an empty read that seeks to the first data record all the same
EmptyReadAfterSeek(positions, position) ==
    [kind |-> "Ok", value |-> 0, samples |-> << >>,
     io |-> << [off |-> header_size, len |-> 0, ok |-> TRUE] >>,
     positions |-> positions, position |-> header_size]

\* Ok(Vec::new()), no I/O made and no cursor written
EmptyRead(positions, position) ==
    [kind |-> "Ok", value |-> 0, samples |-> << >>, io |-> << >>, positions |-> positions,
     position |-> position]

\* count.min(available_samples)
ActualCount(count, signal_param, current_pos) ==
    Min(count,
        Max(signal_param.samples_per_record * header.datarecords_in_file - current_pos, 0))

\* what the call returns once the loop r ended: the error of a failed read, or
\* the samples with the cursor moved past them
AfterChunks(positions, signal, current_pos, r) ==
    IF r.kind # "Ok"
    THEN [kind |-> r.kind, value |-> 0, samples |-> << >>, io |-> r.io,
          positions |-> CursorsOnError(positions, signal, Len(r.samples)),
          position |-> r.position]
    ELSE [kind |-> "Ok", value |-> 0, samples |-> r.samples, io |-> r.io,
          positions |-> SetCursor(positions, signal, current_pos + Len(r.samples)),
          position |-> r.position]

ReadCounted(positions, position, signal, signal_param, info_i, current_pos, actual_count) ==
    IF actual_count = 0 THEN EmptyRead(positions, position)
    ELSE AfterChunks(positions, signal, current_pos,
                     ReadChunks(file, header_size, record_size, info_i, signal_param,
                                current_pos, actual_count, << >>, << >>, position))

ReadSignal(positions, position, signal, count, signal_param, current_pos) ==
    ReadCounted(positions, position, signal, signal_param,
                signal_info[ActualSignalIdx(signal_info, signal)], current_pos,
                ActualCount(count, signal_param, current_pos))

read_digital_samples(positions, position, signal, count) ==
    IF signal >= Len(header.signals)
    THEN [kind |-> "InvalidSignalIndex", value |-> signal, samples |-> << >>,
          io |-> << >>, positions |-> positions, position |-> position]
    ELSE IF count = 0 THEN EmptyRead(positions, position)
    ELSE ReadSignal(positions, position, signal, count, header.signals[signal + 1],
                    positions[signal + 1])

\* SignalParam::to_physical, as the exact fraction << numerator, denominator >>:
\* (digital - offset) * bitvalue with bitvalue = (pmax - pmin) / (dmax - dmin) and
\* offset = pmax / bitvalue - dmax
to_physical(signal_param, d) ==
    LET dd == signal_param.digital_max - signal_param.digital_min
        pd == signal_param.physical_max - signal_param.physical_min
    IN  << signal_param.physical_max * dd - (signal_param.digital_max - d) * pd, dd >>

\* position.max(0).min(max_position)
ClampPosition(position, max_position) == Min(Max(position, 0), max_position)

\* seek on a reader whose cursors are `positions`
SeekTo(positions, signal, new_position) ==
    [kind |-> "Ok", value |-> new_position,
     positions |-> SetCursor(positions, signal, new_position)]

seek(positions, signal, position) ==
    IF signal >= Len(header.signals)
    THEN [kind |-> "InvalidSignalIndex", value |-> signal, positions |-> positions]
    ELSE SeekTo(positions, signal,
                ClampPosition(position,
                    header.signals[signal + 1].samples_per_record
                        * header.datarecords_in_file))

\* tell on a reader whose cursors are `positions`
tell(positions, signal) ==
    IF signal >= Len(header.signals)
    THEN [kind |-> "InvalidSignalIndex", value |-> signal]
    ELSE [kind |-> "Ok", value |-> positions[signal + 1]]

----------------------------------------------------------------------------
(* The reader as a state machine *)

NoHeader ==
    [ signals |-> << >>, file_duration |-> 0, starttime_subsecond |-> 0,
      datarecords_in_file |-> 0, datarecord_duration |-> 0, annotations_in_file |-> 0 ]

NoCall == [op |-> "none", signal |-> 0, arg |-> 0]

Returned(kind, value, samples, phys, io) ==
    [kind |-> kind, value |-> value, samples |-> samples, phys |-> phys, io |-> io]

\* no second reader constructed yet
NoTwin == [status |-> "closed", sample_positions |-> << >>, file_position |-> 0]

\* no slice handed to the decoders: the slice, whether it is of the first
\* annotation signal, the subsecond of the header, and the locals of the loops
\* of quick_parse_tal_for_count and of parse_tal_data
NoTal ==
    [ data |-> << >>, first |-> FALSE, subsecond |-> 0,
      count |-> CountStart, st |-> TalStart ]

InitOn(files) ==
    /\ file \in files
    /\ status = "closed"
    /\ header = NoHeader
    /\ signal_info = << >>
    /\ sample_positions = << >>
    /\ header_size = 0
    /\ record_size = 0
    /\ annotations = << >>
    /\ file_position = 0
    /\ call = NoCall
    /\ before = << >>
    /\ ret = Returned("none", 0, << >>, << >>, << >>)
    /\ twin = NoTwin
    /\ tal = NoTal

Init == InitOn(Files)
InitOpen == InitOn(OpenFiles)
InitAnnotated == InitOn(AnnotatedFiles)

\* what open makes of the Result of parse_annotations
AnnotationsOrEmpty(full) == IF full.kind = "ok" THEN full.anns ELSE << >>

\* the Result open returns once the header is decoded, given the outcome of
\* the full TAL pass
OpenResult(full) == IF full.kind = "panic" THEN "panic" ELSE "Ok"

\* the (count, subsecond) open keeps of a counting pass: unwrap_or((0, 0))
CountOrZero(cnt) == IF cnt.ok THEN cnt ELSE [ok |-> FALSE, count |-> 0, subsecond |-> 0]

\* the header open builds from the decoded signals and the counting pass
HeaderOf(f, ps, cnt) ==
    [ signals |-> ps.signals,
      file_duration |-> EDFLIB_TIME_DIMENSION * f.datarecords,
      starttime_subsecond |-> cnt.subsecond,
      datarecords_in_file |-> f.datarecords,
      datarecord_duration |-> EDFLIB_TIME_DIMENSION,
      annotations_in_file |-> cnt.count ]

\* the reader open returns (or the panic it ends with), given the outcome of
\* the full TAL pass on the reader under construction
OpenAnnotated(ps, hsize, hdr, full) ==
    [ kind |-> OpenResult(full),
      header |-> [hdr EXCEPT !.starttime_subsecond = full.subsecond],
      signal_info |-> ps.signal_info,
      sample_positions |-> [ i \in 1..Len(ps.signals) |-> 0 ],
      header_size |-> hsize,
      record_size |-> ps.record_size,
      annotations |-> AnnotationsOrEmpty(full),
      file_position |-> full.position ]

OpenCounted(f, ps, hsize, hdr) ==
    OpenAnnotated(ps, hsize, hdr,
                  parse_annotations(f, hdr, ps.signal_info, hsize, ps.record_size))

OpenFailed(err) ==
    [ kind |-> err, header |-> NoHeader, signal_info |-> << >>,
      sample_positions |-> << >>, header_size |-> 0, record_size |-> 0,
      annotations |-> << >>, file_position |-> 0 ]

OpenSignals(f, ps, hsize) ==
    IF ps.err # "Ok" THEN OpenFailed(ps.err)
    ELSE OpenCounted(f, ps, hsize,
             HeaderOf(f, ps,
                 CountOrZero(count_annotations_and_parse_subsecond(
                     f, ps.signal_info, f.datarecords, ps.record_size, hsize))))

\* NaiveDate::from_ymd_opt(year, month as u32, day as u32) is Some
IsDate(year, month, day) ==
    /\ month \in 1..12
    /\ day >= 1
    /\ day <= (IF month \in {4, 6, 9, 11} THEN 30
               ELSE IF month # 2 THEN 31
               ELSE IF year % 4 = 0 /\ (year % 100 # 0 \/ year % 400 = 0) THEN 29
               ELSE 28)

\* parse_datetime on the dotted components of the two fields; the time is one
\* NaiveTime::from_hms_opt accepts
parse_datetime(date, time) ==
    IF Len(date) # 3 THEN "FormatError"
    ELSE IF ~IsDate(IF date[3] > 84 THEN 1900 + date[3] ELSE 2000 + date[3],
                    date[2], date[1])
    THEN "FormatError"
    ELSE IF Len(time) # 3 THEN "FormatError"
    ELSE IF ~(time[1] \in 0..23 /\ time[2] \in 0..59 /\ time[3] \in 0..59)
    THEN "FormatError"
    ELSE "Ok"

\* the checks with the reserved field looked at ahead of the signal count
ReservedFirst(m) ==
    IF ~StartsWith(Trim(m.version), << 48 >>) THEN "UnsupportedFileType"
    ELSE IF ~StartsWith(m.reserved, << 69, 68, 70, 43, 67 >>) THEN "UnsupportedFileType"
    ELSE IF m.signals < 1 \/ m.signals > EDFLIB_MAXSIGNALS THEN "InvalidSignalCount"
    ELSE IF m.header_size # (m.signals + 1) * 256 THEN "InvalidHeader"
    ELSE parse_datetime(m.date, m.time)

\* the checks parse_header makes on the main header, in its order: the version
\* starts with '0' once trimmed, the signal count, the header-size field, the
\* reserved field starts with "EDF+C", the date and time; the error it returns,
\* or "Ok"
MainError(m) ==
    IF ~StartsWith(Trim(m.version), << 48 >>) THEN "UnsupportedFileType"
    ELSE IF m.signals < 1 \/ m.signals > EDFLIB_MAXSIGNALS THEN "InvalidSignalCount"
    ELSE IF m.header_size # (m.signals + 1) * 256 THEN "InvalidHeader"
    ELSE IF ~StartsWith(m.reserved, << 69, 68, 70, 43, 67 >>) THEN "UnsupportedFileType"
    ELSE parse_datetime(m.date, m.time)

\* open once the main header is checked
OpenMain(f, err) ==
    IF err # "Ok" THEN OpenFailed(err)
    ELSE OpenSignals(f, parse_signals(f.slots, f.datarecords), FileHeaderBytes(f))

\* EdfReader::open on file f: parse_header (with its counting pass), the
\* counting pass again, then parse_annotations on the reader under construction
open(f) == OpenMain(f, MainError(f.main))

Open ==
    /\ status = "closed"
    /\ \E r \in { open(file) } :
           /\ call' = [op |-> "open", signal |-> 0, arg |-> 0]
           /\ before' = << >>
           /\ ret' = Returned(r.kind, 0, << >>, << >>, << >>)
           /\ IF r.kind = "Ok"
              THEN /\ status' = "open"
                   /\ header' = r.header
                   /\ signal_info' = r.signal_info
                   /\ sample_positions' = r.sample_positions
                   /\ header_size' = r.header_size
                   /\ record_size' = r.record_size
                   /\ annotations' = r.annotations
                   /\ file_position' = r.file_position
              ELSE /\ status' = "failed"
                   /\ UNCHANGED << header, signal_info, sample_positions, header_size,
                                   record_size, annotations, file_position >>
    /\ UNCHANGED << file, beside >>

\* sample operations that drop the annotation list
FrameLessAnnotations ==
    /\ UNCHANGED << file, status, header, signal_info, header_size, record_size, beside >>
    /\ annotations' = << >>

Frame ==
    UNCHANGED << file, status, header, signal_info, header_size, record_size, annotations,
                 beside >>

\* signal indexes a caller may pass: those of the user signals and the first
\* index past them
SignalArgs == 0..Len(header.signals)

ReadDigital(signal, count) ==
    /\ status = "open"
    /\ \E r \in { read_digital_samples(sample_positions, file_position, signal, count) } :
           /\ call' = [op |-> "read_digital", signal |-> signal, arg |-> count]
           /\ before' = sample_positions
           /\ ret' = Returned(r.kind, r.value, r.samples, << >>, r.io)
           /\ sample_positions' = r.positions
           /\ file_position' = r.position
    /\ Frame

\* the digital values handed back as they are, over 1
DigitalAsPhysical(signal, r) ==
    IF r.kind = "Ok" THEN [ j \in 1..Len(r.samples) |-> << r.samples[j], 1 >> ] ELSE << >>

\* digital_samples.iter().map(|&d| signal_param.to_physical(d)).collect()
PhysicalOf(signal, r) ==
    IF r.kind = "Ok"
    THEN [ j \in 1..Len(r.samples) |->
             to_physical(header.signals[signal + 1], r.samples[j]) ]
    ELSE << >>

\* read_physical_samples: read_digital_samples, then the conversion
ReadPhysical(signal, count) ==
    /\ status = "open"
    /\ \E r \in { read_digital_samples(sample_positions, file_position, signal, count) } :
           /\ call' = [op |-> "read_physical", signal |-> signal, arg |-> count]
           /\ before' = sample_positions
           /\ ret' = Returned(r.kind, r.value, << >>, PhysicalOf(signal, r), r.io)
           /\ sample_positions' = r.positions
           /\ file_position' = r.position
    /\ Frame

Seek(signal, position) ==
    /\ status = "open"
    /\ \E r \in { seek(sample_positions, signal, position) } :
           /\ call' = [op |-> "seek", signal |-> signal, arg |-> position]
           /\ before' = sample_positions
           /\ ret' = Returned(r.kind, r.value, << >>, << >>, << >>)
           /\ sample_positions' = r.positions
    /\ UNCHANGED file_position
    /\ Frame

Tell(signal) ==
    /\ status = "open"
    /\ \E r \in { tell(sample_positions, signal) } :
           /\ call' = [op |-> "tell", signal |-> signal, arg |-> 0]
           /\ before' = sample_positions
           /\ ret' = Returned(r.kind, r.value, << >>, << >>, << >>)
    /\ UNCHANGED << sample_positions, file_position >>
    /\ Frame

\* rewind: seek(signal, 0), its position dropped
Rewind(signal) ==
    /\ status = "open"
    /\ \E r \in { seek(sample_positions, signal, 0) } :
           /\ call' = [op |-> "rewind", signal |-> signal, arg |-> 0]
           /\ before' = sample_positions
           /\ ret' = Returned(r.kind, IF r.kind = "Ok" THEN 0 ELSE r.value, << >>, << >>, << >>)
           /\ sample_positions' = r.positions
    /\ UNCHANGED file_position
    /\ Frame

Next ==
    \/ Open
    \/ \E signal \in SignalArgs, count \in 0..MaxCount : ReadDigital(signal, count)
    \/ \E signal \in SignalArgs, count \in 0..MaxCount : ReadPhysical(signal, count)
    \/ \E signal \in SignalArgs, position \in (-1)..MaxSeek : Seek(signal, position)
    \/ \E signal \in SignalArgs : Tell(signal)
    \/ \E signal \in SignalArgs : Rewind(signal)

Spec == Init /\ [][Next]_vars

\* a second reader over the same file.  Its header, signal_info, header_size and
\* record_size are what open decodes from the same bytes, those of the first
\* reader; its cursors and its file handle are its own.
TwinOpen ==
    /\ twin.status = "closed"
    /\ \E r \in { open(file) } :
           /\ r.kind = "Ok"
           /\ twin' = [status |-> "open", sample_positions |-> r.sample_positions,
                         file_position |-> r.file_position]
    /\ UNCHANGED << reader_vars, tal >>

\* cursors that every reader would write
CursorsInCommon(mine, theirs) == theirs

\* sample_positions is a field of each EdfReader: what an operation on another
\* reader writes into `theirs` leaves `mine`
CursorsBeside(mine, theirs) == mine

\* the reader after an operation on the second reader left cursors `theirs`
TwinDone(theirs, position) ==
    /\ twin' = [twin EXCEPT !.sample_positions = theirs, !.file_position = position]
    /\ sample_positions' = CursorsBeside(sample_positions, theirs)
    /\ UNCHANGED << file, status, header, signal_info, header_size, record_size,
                    annotations, file_position, call, before, ret, tal >>

TwinRead(signal, count) ==
    /\ status = "open" /\ twin.status = "open"
    /\ \E r \in { read_digital_samples(twin.sample_positions, twin.file_position,
                                        signal, count) } :
           TwinDone(r.positions, r.position)

TwinSeek(signal, position) ==
    /\ status = "open" /\ twin.status = "open"
    /\ \E r \in { seek(twin.sample_positions, signal, position) } :
           TwinDone(r.positions, twin.file_position)

\* two readers over one file of the family, their operations interleaved
NextTwo ==
    \/ Next
    \/ TwinOpen
    \/ \E signal \in SignalArgs, count \in 0..MaxCount : TwinRead(signal, count)
    \/ \E signal \in SignalArgs, position \in (-1)..MaxSeek : TwinSeek(signal, position)

SpecTwo == InitOn({ MakeFile(<< Fp1, Ann >>, MaxRecords, 0, 0) }) /\ [][NextTwo]_vars

\* the bytes the decoders tell apart: '+', 0x14, 0x15, NUL, a digit, a letter
TalBytes == { 43, 20, 21, 0, 49, 65 }

\* every slice of at most MaxSlice of these bytes
ShortSlices == UNION { [1..n -> TalBytes] : n \in 0..MaxSlice }

\* longer slices, as writers and damaged files give them
WrittenSlices ==
    { << 43, 49, 20, 65, 20, 0 >>,                             \* +1 A
      << 43, 49, 20, 65, 20 >>,                                \* +1 A, no NUL at the end
      << 0, 43, 49, 20, 65, 20, 0 >>,                          \* NUL first, then +1 A
      << 43, 49, 20, 65, 0, 43, 50, 20, 66, 20, 0 >>,          \* NUL inside +1 A, then +2 B
      << 43, 49, 0, 43, 50, 20, 66, 20, 0 >>,                  \* NUL inside the onset, then +2 B
      << 43, 49, 20, 65, 20, 0, 43, 50, 20, 66, 20, 0 >>,      \* +1 A NUL +2 B
      << 43, 49, 20, 65, 20, 0, 0, 43, 50, 20, 66, 20, 0 >>,   \* +1 A NUL NUL +2 B
      << 43, 49, 20, 20, 0, 0, 0, 43, 50, 20, 66, 20, 0 >>,    \* +1 NUL NUL NUL +2 B
      << 43, 49, 21, 50, 20, 65, 20, 0 >>,                     \* +1 for 2 A
      << 43, 49, 21, 50, 20, 65, 20, 43, 53, 20, 66, 20, 0 >>, \* +1 for 2 A, +5 B in one run
      << 43, 49, 21, 50, 20, 65, 20, 0, 43, 53, 20, 66, 20, 0 >>, \* +1 for 2 A NUL +5 B
      << 43, 49, 21, 50, 20, 0, 43, 53, 20, 65, 20, 0 >>,      \* +1 for 2 cut by NUL, +5 A
      << 43, 49, 50, 51, 20, 0, 43, 53, 20, 65, 20, 0 >>,      \* +123 cut by NUL, +5 A
      << 45, 49, 20, 65, 20, 0 >>,                             \* -1 A
      << 45, 49, 21, 50, 20, 65, 20, 0 >>,                     \* -1 for 2 A
      << 43, 49, 20, 65, 20, 0, 45, 50, 20, 66, 20, 0 >> }     \* +1 A NUL -2 B

\* one slice in the hands of the two decoders, for a header subsecond of 0 or
\* of an eighth of a second; the reader itself stays closed
InitTal ==
    /\ file \in { MakeFile(<< Fp1, Ann >>, MaxRecords, 0, 0) }
    /\ status = "closed"
    /\ header = NoHeader
    /\ signal_info = << >>
    /\ sample_positions = << >>
    /\ header_size = 0
    /\ record_size = 0
    /\ annotations = << >>
    /\ file_position = 0
    /\ call = NoCall
    /\ before = << >>
    /\ ret = Returned("none", 0, << >>, << >>, << >>)
    /\ twin = NoTwin
    /\ tal \in [ data : ShortSlices \cup WrittenSlices, first : BOOLEAN,
                  subsecond : { 0, 1250000 },
                  count : { CountStart }, st : { TalStart } ]

\* max == 0 || data[max - 1] != 0: the slice neither decoder reads
Unreadable(data) == Len(data) = 0 \/ data[Len(data)] # 0

\* while k < max - 1, until a break
Looping(data, st) == ~Unreadable(data) /\ ~st.halt /\ st.k < Len(data) - 1

\* one iteration of the loop of quick_parse_tal_for_count, the pass that runs first
CountByte ==
    /\ Looping(tal.data, tal.count)
    /\ tal' = [tal EXCEPT !.count = CountStep(tal.data, tal.first, tal.count)]
    /\ UNCHANGED << reader_vars, twin >>

\* one iteration of the loop of parse_tal_data, the pass that runs second
TalByte ==
    /\ ~Looping(tal.data, tal.count)
    /\ Looping(tal.data, tal.st)
    /\ tal' = [tal EXCEPT !.st = TalStep(tal.data, tal.first, tal.subsecond, tal.st)]
    /\ UNCHANGED << reader_vars, twin >>

NextTal == CountByte \/ TalByte
SpecTal == InitTal /\ [][NextTal]_vars

\* the loops of the reader: the two decoder loops run over a slice, one
\* iteration a step, or the chunk loop of the read operations run on a reader
SpecLoops == (Init \/ InitTal) /\ [][NextTal \/ (tal = NoTal /\ Next)]_vars

\* open alone, over the larger family of files
NextOpen == Open
SpecOpen == InitOpen /\ [][NextOpen]_vars

\* open alone, over the annotated files
NextAnnotated == Open
SpecAnnotated == InitAnnotated /\ [][NextAnnotated]_vars

----------------------------------------------------------------------------
(* Vocabulary of the properties *)

Opened == status = "open"
ReaderOps == { "read_digital", "read_physical", "seek", "tell", "rewind" }
ReadOps == { "read_digital", "read_physical" }

\* the call just made was a reader operation / one on a valid signal
AfterOp == Opened /\ call.op \in ReaderOps
AfterValidOp == AfterOp /\ call.signal < Len(header.signals)

\* samples_in_file(i) and tell(i) of the reader, i 0-based
SamplesInFile(i) == header.signals[i + 1].samples_in_file
Cursor(i) == tell(sample_positions, i).value
CursorBefore(i) == before[i + 1]

\* the number of non-annotation signals the file declares
FileUserSignals(f) == Cardinality({ s \in 1..Len(f.slots) : f.slots[s].label # AnnotationLabel })

\* the record-start timestamp of record r of file f: the first field of the
\* first annotation signal's slice
SliceAt(f, base, a) == SubSeq(f.data, base + a.buffer_offset + 1,
                                 base + a.buffer_offset + 2 * a.samples_per_record)

FirstAnnotationOf(info) == info[AnnotationSignals(info)[1]]

FirstAnnotationSlice(f, r) ==
    SliceAt(f, r * RecordBytes(f.slots), FirstAnnotationOf(SignalInfoOf(f.slots)))

RecordTimestamp(f, r) == extract_timestamp(FirstAnnotationSlice(f, r))

\* file f holds, whole, two consecutive records whose timestamps are further
\* apart than the record duration allows
FileDiscontinuous(f) ==
    /\ AnnotationSignals(SignalInfoOf(f.slots)) # << >>
    /\ \E r \in 1..(f.datarecords - 1) :
          /\ Len(f.data) >= (r + 1) * RecordBytes(f.slots)
          /\ \E t0 \in { RecordTimestamp(f, r - 1) }, t1 \in { RecordTimestamp(f, r) } :
                /\ t0.kind = "some"
                /\ t1.kind = "some"
                /\ Abs(t1.ts - (t0.ts + EDFLIB_TIME_DIMENSION))
                     > EDFLIB_TIME_DIMENSION \div 1000

----------------------------------------------------------------------------
(* Properties *)

\* C1: open fails with InvalidHeader on a file whose record-start timestamps
\* are discontinuous (and whose header is otherwise valid); such a file never
\* yields a reader.
C1_DiscontinuousRejected ==
    (status # "closed" /\ FileDiscontinuous(file) /\ SignalError(file.slots) = "Ok")
        => (status = "failed" /\ ret.kind = "InvalidHeader")

\* C2: after open and after every operation, every cursor c_i satisfies
\* 0 <= c_i <= samples_in_file(i); right after open every cursor is 0.
C2_CursorInBounds ==
    Opened =>
        /\ \A i \in 0..(Len(header.signals) - 1) :
               0 <= Cursor(i) /\ Cursor(i) <= SamplesInFile(i)
        /\ call.op = "open" =>
               \A i \in 0..(Len(header.signals) - 1) : Cursor(i) = 0

\* C3: seek(i, p) on a valid signal returns p clamped to [0, samples_in_file(i)]
\* and tell(i) then returns the same value; a negative p gives 0 and a p past
\* the end gives samples_in_file(i).
C3_SeekClamps ==
    (AfterValidOp /\ call.op = "seek") =>
        LET i == call.signal
            p == call.arg
        IN  /\ ret.kind = "Ok"
            /\ Cursor(i) = ret.value
            /\ (0 <= p /\ p <= SamplesInFile(i)) => ret.value = p
            /\ p < 0 => ret.value = 0
            /\ p > SamplesInFile(i) => ret.value = SamplesInFile(i)

\* C4: a read_digital(i, n) that returns k samples leaves tell(i) = tell_before
\* + k, with k <= n and k <= samples_in_file(i) - tell_before, and k < n only
\* when the end of the signal is reached.
C4_ReadAdvancesByCount ==
    (AfterValidOp /\ call.op = "read_digital" /\ ret.kind = "Ok") =>
        LET i == call.signal
            n == call.arg
            k == Len(ret.samples)
        IN  /\ Cursor(i) = CursorBefore(i) + k
            /\ k <= n
            /\ k <= SamplesInFile(i) - CursorBefore(i)
            /\ k < n => Cursor(i) = SamplesInFile(i)

\* C5: every digital sample d returned for signal i satisfies
\* digital_min(i) <= d <= digital_max(i).
C5_SamplesInDigitalRange ==
    (AfterValidOp /\ call.op = "read_digital" /\ ret.kind = "Ok") =>
        \A j \in 1..Len(ret.samples) :
            /\ header.signals[call.signal + 1].digital_min <= ret.samples[j]
            /\ ret.samples[j] <= header.signals[call.signal + 1].digital_max

\* C6: an operation on signal i leaves tell(j) unchanged for every other
\* user-visible signal j.
C6_CursorIndependence ==
    AfterOp =>
        \A j \in 0..(Len(header.signals) - 1) :
            j # call.signal => Cursor(j) = CursorBefore(j)

\* C7: an operation that returns an error leaves every cursor, the target
\* signal's included, as it was before the call.
C7_ErrorsKeepCursors ==
    (AfterOp /\ ret.kind # "Ok") => sample_positions = before

\* C8: an operation returns InvalidSignalIndex(i) exactly when i is not below
\* the number of non-annotation signals of the file, whatever the count asked.
C8_InvalidIndexIffNotUserSignal ==
    AfterOp =>
        /\ (ret.kind = "InvalidSignalIndex") <=> (call.signal >= FileUserSignals(file))
        /\ ret.kind = "InvalidSignalIndex" => ret.value = call.signal

\* C9: after rewind(i), read(i, k1) then read(i, k2) return, concatenated, what
\* one read(i, k1 + k2) returns, and end with the same cursor; the single read
\* succeeds exactly when both parts do.
C9_SplitLaw ==
    (AfterValidOp /\ call.op = "rewind") =>
        \A k1, k2 \in 0..MaxCount :
            \A a \in { read_digital_samples(sample_positions, file_position, call.signal, k1) } :
                \A b \in { read_digital_samples(a.positions, a.position, call.signal, k2) },
                   c \in { read_digital_samples(sample_positions, file_position, call.signal, k1 + k2) } :
                    /\ (c.kind = "Ok") <=> (a.kind = "Ok" /\ b.kind = "Ok")
                    /\ c.kind = "Ok" =>
                          /\ a.samples \o b.samples = c.samples
                          /\ b.positions = c.positions

\* C10: a read_digital(i, n) with n > samples_in_file(i) - c returns the
\* samples_in_file(i) - c samples that are left and leaves the cursor at
\* samples_in_file(i); a further read returns nothing and leaves it there.
C10_ReadPastEnd ==
    (AfterValidOp /\ call.op = "read_digital" /\ ret.kind = "Ok"
       /\ call.arg > SamplesInFile(call.signal) - CursorBefore(call.signal)) =>
        \A again \in { read_digital_samples(sample_positions, file_position, call.signal, call.arg) } :
            /\ Len(ret.samples) = SamplesInFile(call.signal) - CursorBefore(call.signal)
            /\ Cursor(call.signal) = SamplesInFile(call.signal)
            /\ again.kind = "Ok" /\ again.samples = << >>
            /\ again.positions = sample_positions

----------------------------------------------------------------------------
(* Reachable cases of the properties *)

\* an operation on one of two signals moved its cursor while the other
\* signal's cursor was not at 0
C6_Witness ==
    /\ AfterValidOp /\ call.op \in ReadOps /\ ret.kind = "Ok"
    /\ Cursor(call.signal) # CursorBefore(call.signal)
    /\ \E j \in 0..(Len(header.signals) - 1) : j # call.signal /\ CursorBefore(j) > 0

\* a read failed on its second chunk, after a first chunk was read
C7_Witness ==
    /\ AfterValidOp /\ call.op = "read_digital" /\ ret.kind = "FileReadError"
    /\ Len(ret.io) = 2 /\ ret.io[1].ok /\ ~ret.io[2].ok

\* a read of 0 samples with an index that is a slot of the file but no user signal
C8_Witness ==
    /\ AfterOp /\ call.op = "read_digital" /\ call.arg = 0
    /\ call.signal < Len(file.slots)
    /\ ret.kind = "InvalidSignalIndex"

\* after a rewind, a read of 3 samples crosses the record boundary at 2
C9_Witness ==
    /\ AfterValidOp /\ call.op = "rewind"
    /\ header.signals[call.signal + 1].samples_per_record = 2
    /\ \E c \in { read_digital_samples(sample_positions, file_position, call.signal, 3) } :
           c.kind = "Ok" /\ Len(c.samples) = 3 /\ Len(c.io) = 2

----------------------------------------------------------------------------
(* Reads as functions of the file and the cursor (C11) *)

\* stream positions the file handle may have been left at by earlier calls
HandlePositions ==
    { header_size, header_size + record_size, EndOfFile(file), file_position }

\* cursor vectors that hold `cursor` for `signal` and anything for the others
CursorsWith(signal, cursor) ==
    { [ j \in DOMAIN sample_positions |-> IF j = signal + 1 THEN cursor ELSE c ] :
        c \in 0..MaxSeek }
    \cup { SetCursor(sample_positions, signal, cursor) }

\* C11: the samples a successful read_digital(i, n) returned are those the same
\* call returns on any reader of this file whose cursor of i has the same value,
\* wherever earlier reads left the file handle and the other cursors; so
\* reading the same position again returns the same samples.
C11_ReadDependsOnFileAndCursor ==
    (Opened /\ call.op = "read_digital" /\ ret.kind = "Ok") =>
        \A positions \in CursorsWith(call.signal, CursorBefore(call.signal)),
           position \in HandlePositions :
            \A again \in { read_digital_samples(positions, position,
                                                 call.signal, call.arg) } :
                /\ again.kind = "Ok"
                /\ again.samples = ret.samples

\* a read of two samples of one signal, from a cursor moved off 0, on a reader
\* whose other signal was read or sought before
C11_Witness ==
    /\ Opened /\ call.op = "read_digital" /\ ret.kind = "Ok"
    /\ Len(ret.samples) = 2
    /\ CursorBefore(call.signal) > 0
    /\ \E j \in 0..(Len(header.signals) - 1) : j # call.signal /\ Cursor(j) > 0
    /\ file_position # header_size

----------------------------------------------------------------------------
(* Annotations against the script of the file (C12 ..) *)

\* the items the writer put in the slice of record r (from 0) of annotation
\* signal a (from 0)
Scripted(r, a) ==
    SliceItems(file.script.kinds[a + 1], r, a, file.script.subs[a + 1])

\* the annotation signals of the file, from 0
ScriptSignals == 0..(Len(file.script.kinds) - 1)

\* a description that is a Tag, and the place in decode order it names: record,
\* then annotation signal, then position in the slice
IsTag(description) == Len(description) = 1 /\ description[1] >= 65
DecodeRank(description) == description[1] - 65

\* C12: after a successful open, annotations() is in non-decreasing order of
\* onset, and entries of equal onset stand in the order they were decoded in:
\* by record, then by annotation signal, then by position in the slice.
C12_SortedStably ==
    Opened =>
        \A i, j \in 1..Len(annotations) :
            i < j =>
                /\ annotations[i].onset <= annotations[j].onset
                /\ ( /\ annotations[i].onset = annotations[j].onset
                     /\ IsTag(annotations[i].description)
                     /\ IsTag(annotations[j].description) )
                   => DecodeRank(annotations[i].description)
                        <= DecodeRank(annotations[j].description)

\* a list the sort reordered (an entry decoded later stands earlier), with
\* entries of equal onset from two records and from two annotation signals
C12_Witness ==
    /\ Opened
    /\ \E i, j \in 1..Len(annotations) :
           /\ i < j
           /\ IsTag(annotations[i].description) /\ IsTag(annotations[j].description)
           /\ DecodeRank(annotations[i].description) > DecodeRank(annotations[j].description)
    /\ \E i, j \in 1..Len(annotations) :
           /\ i < j /\ annotations[i].onset = annotations[j].onset
           /\ IsTag(annotations[i].description) /\ IsTag(annotations[j].description)
           /\ DecodeRank(annotations[j].description)
                >= DecodeRank(annotations[i].description) + 8
    /\ \E i, j \in 1..Len(annotations) :
           /\ i < j /\ annotations[i].onset = annotations[j].onset
           /\ IsTag(annotations[i].description) /\ IsTag(annotations[j].description)
           /\ DecodeRank(annotations[j].description)
                = DecodeRank(annotations[i].description) + 4

\* the records the header declares, from 0
ScriptRecordNumbers == 0..(file.datarecords - 1)

\* the TALs of the file as written: (record, annotation signal, position)
TalPlaces ==
    { << r, a, pos >> \in ScriptRecordNumbers \X ScriptSignals \X (1..4) :
        /\ pos <= Len(Scripted(r, a))
        /\ Scripted(r, a)[pos].kind = "tal" }

\* the record-start timestamps as written: the first TAL of a slice of the
\* first annotation signal, when its description is empty
StampPlaces ==
    { pl \in TalPlaces :
        pl[2] = 0 /\ pl[3] = 1 /\ Scripted(pl[1], 0)[1].description = << >> }

ItemAt(pl) == Scripted(pl[1], pl[2])[pl[3]]

\* the entry of annotations() that a TAL as written stands for, and the number
\* of entries of annotations() equal to it in onset and description
Entry(item) ==
    [onset |-> item.ticks - header.starttime_subsecond, description |-> item.description]
Shown(e) ==
    Cardinality({ i \in 1..Len(annotations) :
                    /\ annotations[i].onset = e.onset
                    /\ annotations[i].description = e.description })

\* the number of TALs among `places` that stand for entry e
Standing(places, e) == Cardinality({ pl \in places : Entry(ItemAt(pl)) = e })

\* C13: in every data record the first annotation of the slice of the first
\* annotation signal, when its description is empty, is the record-start
\* timestamp and is not in annotations(): the entries equal to it are no more
\* than the other TALs of the file that read the same.
C13_TimestampNotEmitted ==
    Opened =>
        \A pl \in StampPlaces :
            Shown(Entry(ItemAt(pl))) <= Standing(TalPlaces \ StampPlaces, Entry(ItemAt(pl)))

\* a file of two records with their timestamps, opened with a list that holds
\* annotations of both records and an empty description, none of them a
\* timestamp
C13_Witness ==
    /\ Opened
    /\ \E p0, p1 \in StampPlaces : p0[1] = 0 /\ p1[1] = 1
    /\ \E i \in 1..Len(annotations) : annotations[i].description = << >>
    /\ \E i, j \in 1..Len(annotations) :
           /\ IsTag(annotations[i].description) /\ IsTag(annotations[j].description)
           /\ DecodeRank(annotations[j].description)
                >= DecodeRank(annotations[i].description) + 8
    /\ \A pl \in StampPlaces : Shown(Entry(ItemAt(pl))) = 0

\* kinds of slice that hold well-formed TALs only and end with NUL
SoundKinds == { "events", "blank", "empties", "unstamped", "note" }

\* a file whose slices are all sound, none of its bytes missing; its record
\* starts run on by one record duration, so it is continuous
SoundFile ==
    /\ file.cut = 0
    /\ \A a \in ScriptSignals : file.script.kinds[a + 1] \in SoundKinds

\* C14: on a continuous file read without I/O error, every well-formed TAL
\* other than the record-start timestamps gives exactly one entry of
\* annotations(), the TALs of empty description at a later position of the
\* first annotation signal or anywhere in another annotation signal included.
C14_EveryTalEmittedOnce ==
    (Opened /\ SoundFile) =>
        /\ Len(annotations) = Cardinality(TalPlaces \ StampPlaces)
        /\ \A pl \in TalPlaces \ StampPlaces :
               Shown(Entry(ItemAt(pl))) = Standing(TalPlaces \ StampPlaces, Entry(ItemAt(pl)))

\* a sound file of two annotation signals, with a TAL of empty description
\* after the timestamp of the first signal and one at the head of a slice of
\* the second
C14_Witness ==
    /\ Opened /\ SoundFile
    /\ \E pl \in TalPlaces \ StampPlaces :
           pl[2] = 0 /\ pl[3] > 1 /\ ItemAt(pl).description = << >>
    /\ \E pl \in TalPlaces \ StampPlaces :
           pl[2] = 1 /\ pl[3] = 1 /\ ItemAt(pl).description = << >>
    /\ Len(annotations) > 0

\* the place of the record-start timestamp of record 0
FirstStamp == << 0, 0, 1 >>

\* C15: after open, header.starttime_subsecond is the onset of the record-start
\* timestamp of record 0, in ticks, modulo the ticks of one second.
C15_SubsecondOfFirstTimestamp ==
    (Opened /\ SoundFile /\ FirstStamp \in StampPlaces) =>
        header.starttime_subsecond = ItemAt(FirstStamp).ticks % EDFLIB_TIME_DIMENSION

\* C16: every entry of annotations() has the onset of a TAL of the file, in
\* ticks as written, less the header's final starttime_subsecond, and that
\* TAL's description, whatever the record and the annotation signal.
C16_OnsetsLessSubsecond ==
    Opened =>
        \A i \in 1..Len(annotations) :
            \E pl \in TalPlaces \ StampPlaces :
                /\ annotations[i].onset
                     = ItemAt(pl).ticks - header.starttime_subsecond
                /\ annotations[i].description = ItemAt(pl).description

\* a recording that starts an eighth of a second late: a TAL written at 1.125 s
\* stands at one second, and one written at 0 has a negative onset
C16_Witness ==
    /\ Opened
    /\ header.starttime_subsecond = EDFLIB_TIME_DIMENSION \div 8
    /\ \E pl \in TalPlaces \ StampPlaces :
           /\ ItemAt(pl).ticks = EDFLIB_TIME_DIMENSION + EDFLIB_TIME_DIMENSION \div 8
           /\ Entry(ItemAt(pl)).onset = EDFLIB_TIME_DIMENSION
           /\ Shown(Entry(ItemAt(pl))) = 1
    /\ \E i \in 1..Len(annotations) : annotations[i].onset < 0

\* the file with the slices of its second annotation signal written anew, of
\* kind `kind` and time origin `sub`; every other byte is the same
WithSecondSignal(kind, sub) ==
    ScriptFile(file.slots, file.datarecords,
               [kinds |-> << file.script.kinds[1], kind >>,
                subs |-> << file.script.subs[1], sub >>],
               file.cut)

\* C17: the sub-second start time comes from the first annotation signal only:
\* a file that differs from this one only in the slices of its second
\* annotation signal opens with the same header.starttime_subsecond.
C17_SubsecondFromFirstSignalOnly ==
    (Opened /\ Len(file.script.kinds) = 2) =>
        \A other \in { open(WithSecondSignal("blank", 0)) } :
            /\ other.kind = "Ok"
            /\ other.header.starttime_subsecond = header.starttime_subsecond

\* a file that ends before the last record its header declares, so that the
\* passes over the annotation signals meet an I/O error
EndsEarly ==
    /\ file.cut > 0
    /\ file.datarecords > 0
    /\ Len(file.script.kinds) > 0

\* C18: when the file ends before its last declared record, at whatever
\* record, open still succeeds, annotations() is empty and the annotation
\* count of the header is 0.
C18_ReadErrorSwallowed ==
    (status # "closed" /\ EndsEarly) =>
        /\ Opened
        /\ annotations = << >>
        /\ header.annotations_in_file = 0

\* the TALs the reader owes an entry for: not a record-start timestamp, in a
\* slice that ends with NUL, with no malformed bytes before it in its slice
OwedPlaces ==
    { pl \in TalPlaces \ StampPlaces :
        /\ Closed(file.script.kinds[pl[2] + 1])
        /\ \A before_pos \in 1..(pl[3] - 1) :
               Scripted(pl[1], pl[2])[before_pos].kind = "tal" }

\* the TALs written after malformed bytes of their slice
LostPlaces ==
    { pl \in TalPlaces :
        \E before_pos \in 1..(pl[3] - 1) : Scripted(pl[1], pl[2])[before_pos].kind = "raw" }

\* a whole file whose record starts run on: no slice of kind "openjump"
RunsOn ==
    /\ file.cut = 0
    /\ \A a \in ScriptSignals : file.script.kinds[a + 1] # "openjump"

BlankedKind(kind) == IF Closed(kind) THEN kind ELSE "blank"

\* the file with every slice that does not end with NUL written anew as a
\* slice that holds no TAL; every other byte is the same
Blanked ==
    ScriptFile(file.slots, file.datarecords,
               [kinds |-> [a \in DOMAIN file.script.kinds |->
                              BlankedKind(file.script.kinds[a])],
                subs |-> file.script.subs],
               file.cut)

\* a whole file with a slice that does not end with NUL
HasOpenSlice ==
    /\ file.cut = 0
    /\ \E a \in ScriptSignals : ~Closed(file.script.kinds[a + 1])

\* C20: a slice whose last byte is not NUL is ignored entirely: the file opens
\* to the same result, annotations, annotation count and sub-second start time
\* as the file in which these slices hold no TAL.
C20_OpenSliceIgnored ==
    (status # "closed" /\ HasOpenSlice) =>
        \A other \in { open(Blanked) } :
            /\ (other.kind = "Ok") = Opened
            /\ Opened => /\ other.annotations = annotations
                         /\ other.header.annotations_in_file = header.annotations_in_file
                         /\ other.header.starttime_subsecond = header.starttime_subsecond

----------------------------------------------------------------------------
(* C21 *)

\* the descriptors of the file's header that are no annotation signals, in
\* declared order
UserSlots == SelectSeq(file.slots, LAMBDA d : d.label # AnnotationLabel)

\* a descriptor whose physical or digital range is a single value
FlatPhysical(d) == d.pmin = d.pmax
FlatDigital(d) == d.dmin = d.dmax
FlatUsers == { i \in 1..Len(UserSlots) : FlatPhysical(UserSlots[i]) \/ FlatDigital(UserSlots[i]) }

\* the main header of the file is right in every field
SoundMain == \E w \in 0..1 : file.main = MainOf(file.slots, {}, w)

\* C21: every signal of a successfully opened header has physical_min #
\* physical_max and digital_min # digital_max and samples_in_file =
\* samples_per_record x data-record count; a file one of whose non-annotation
\* descriptors has a single-valued range fails to open, with
\* PhysicalMinEqualsMax or DigitalMinEqualsMax as the first such descriptor
\* decides (the main header being right); a single-valued range of an
\* annotation signal fails nothing.
C21_SignalRangesValidated ==
    /\ Opened =>
          /\ Len(header.signals) = Len(UserSlots)
          /\ \A i \in 1..Len(header.signals) :
                 /\ header.signals[i].physical_min # header.signals[i].physical_max
                 /\ header.signals[i].digital_min # header.signals[i].digital_max
                 /\ header.signals[i].samples_per_record = UserSlots[i].spr
                 /\ header.signals[i].samples_in_file = UserSlots[i].spr * file.datarecords
                 /\ header.signals[i].samples_in_file
                      = header.signals[i].samples_per_record * header.datarecords_in_file
    /\ (status # "closed" /\ FlatUsers # {} /\ SoundMain) =>
          /\ status = "failed"
          /\ \E i \in FlatUsers :
                 /\ \A j \in FlatUsers : i <= j
                 /\ ret.kind = IF FlatPhysical(UserSlots[i]) THEN "PhysicalMinEqualsMax"
                                ELSE "DigitalMinEqualsMax"
    /\ (status # "closed" /\ FlatUsers = {}) =>
          ret.kind \notin { "PhysicalMinEqualsMax", "DigitalMinEqualsMax" }

\* a file whose annotation signal has single-valued ranges opens, with its
\* one ordinary signal of 2 records in the header
C21_Witness ==
    /\ Opened
    /\ file.datarecords = 2
    /\ \E s \in 1..Len(file.slots) :
           /\ file.slots[s].label = AnnotationLabel
           /\ FlatPhysical(file.slots[s]) /\ FlatDigital(file.slots[s])
    /\ Len(header.signals) = 1
    /\ header.signals[1].samples_in_file = 2

----------------------------------------------------------------------------
(* C22 *)

\* C22: once open has returned, no read_digital, read_physical, seek, tell or
\* rewind call, succeeding or failing, changes the header (signals, record
\* count, starttime_subsecond, annotation count) or the annotation list.
C22_HeaderAndAnnotationsFrozen ==
    [][status = "open" => (header' = header /\ annotations' = annotations)]_vars

\* after a failed operation that followed a successful read, the header and the
\* annotations are those open built
C22_Witness ==
    /\ AfterOp
    /\ ret.kind # "Ok"
    /\ \E i \in 1..Len(sample_positions) : sample_positions[i] > 0
    /\ annotations # << >>
    /\ header.signals # << >>
    /\ \A r \in { open(file) } : header = r.header /\ annotations = r.annotations

----------------------------------------------------------------------------
(* C23 *)

\* C23: two readers opened on the same file have separate cursors and handles:
\* under any interleaving of their operations, every step either leaves the
\* first reader (its fields, its last call and what that call returned) as it
\* was or is the step the reader makes when it is the only one, so that its
\* results and cursors are those of its operations run alone.
C23_ReadersIndependent == [][Next]_reader_vars

\* both readers open with their cursors and handles apart, the first having
\* just read a sample from a cursor it had moved before
C23_Witness ==
    /\ AfterOp /\ call.op = "read_digital" /\ ret.kind = "Ok" /\ Len(ret.samples) = 1
    /\ before # << 0 >>
    /\ twin.status = "open"
    /\ twin.sample_positions # sample_positions
    /\ twin.sample_positions # << 0 >>
    /\ twin.file_position # file_position

----------------------------------------------------------------------------
(* C24 *)

\* C24: read_physical(i, n) returns, element by element, the to_physical
\* conversion of what read_digital(i, n) returns from the same cursors, leaves
\* the cursors where read_digital leaves them, and fails in the same cases with
\* the same error.
C24_PhysicalIsConvertedDigital ==
    (AfterOp /\ call.op = "read_physical") =>
        \A d \in { read_digital_samples(before, file_position, call.signal, call.arg) } :
            /\ ret.kind = d.kind
            /\ ret.value = d.value
            /\ sample_positions = d.positions
            /\ d.kind = "Ok" =>
                  /\ Len(ret.phys) = Len(d.samples)
                  /\ \A j \in 1..Len(d.samples) :
                         ret.phys[j] = to_physical(header.signals[call.signal + 1], d.samples[j])
            /\ d.kind # "Ok" => ret.phys = << >>

\* a physical read of two samples from a moved cursor of the second signal,
\* whose values are not the digital ones
C24_Witness ==
    /\ AfterOp /\ call.op = "read_physical" /\ call.signal = 1
    /\ ret.kind = "Ok" /\ Len(ret.phys) = 2
    /\ before[2] > 0
    /\ sample_positions[2] = before[2] + 2
    /\ \E d \in { read_digital_samples(before, file_position, 1, 2) } :
           \E j \in 1..2 : ret.phys[j] # << d.samples[j], 1 >>

----------------------------------------------------------------------------
(* C25 *)

\* C25: read_digital(i, 0) and read_physical(i, 0) on a valid signal return an
\* empty sequence, issue no seek and no read on the file (the handle stays where
\* it stood) and leave every cursor unchanged, wherever the cursors stand.
C25_EmptyReadTouchesNothing ==
    [][(/\ status = "open"
        /\ call'.op \in ReadOps /\ call'.arg = 0
        /\ call'.signal < Len(header.signals))
       => /\ ret'.kind = "Ok"
          /\ ret'.samples = << >> /\ ret'.phys = << >>
          /\ ret'.io = << >>
          /\ sample_positions' = sample_positions
          /\ file_position' = file_position]_vars

\* an empty physical read at the end of the signal, the handle standing where
\* the read before it left it
C25_Witness ==
    /\ AfterValidOp /\ call.op = "read_physical" /\ call.arg = 0
    /\ ret.kind = "Ok" /\ ret.phys = << >> /\ ret.io = << >>
    /\ sample_positions = before
    /\ Cursor(call.signal) = SamplesInFile(call.signal)
    /\ Cursor(call.signal) > 0
    /\ file_position > header_size

----------------------------------------------------------------------------
(* The four-state table of the TAL decoder *)

\* the state the table names after `byte` in `state`, "reject" where it rejects;
\* `valid` is the outcome of validating the collected text
TableMove(state, byte, valid) ==
    CASE state = "WaitingForOnset" ->
           IF byte = 43 THEN "CollectingOnset"
           ELSE IF byte = 20 \/ byte = 21 THEN "reject"
           ELSE "WaitingForOnset"
      [] state = "CollectingOnset" ->
           IF byte = 20 THEN (IF valid THEN "CollectingDescription" ELSE "reject")
           ELSE IF byte = 21 THEN (IF valid THEN "CollectingDuration" ELSE "reject")
           ELSE "CollectingOnset"
      [] state = "CollectingDuration" ->
           IF byte = 20 THEN (IF valid THEN "CollectingDescription" ELSE "reject")
           ELSE IF byte = 21 THEN "reject"
           ELSE "CollectingDuration"
      [] OTHER ->
           IF byte = 20 THEN "WaitingForOnset"
           ELSE IF byte = 21 THEN "reject"
           ELSE "CollectingDescription"

\* the collected text after a move that does not reject: a move to another
\* state starts an empty text, a collecting state that stays appends the byte,
\* WaitingForOnset ignores it
TableText(state, byte, move, scratch) ==
    IF move # state THEN << >>
    ELSE IF state = "WaitingForOnset" THEN scratch
    ELSE Append(scratch, byte)

\* the decoder went from `st` to `after` on `byte` as the row `move` says
MovesAs(st, byte, move, after) ==
    IF move = "reject" THEN after.halt /\ after.out = st.out
    ELSE /\ ~after.halt
         /\ after.k = st.k + 1
         /\ after.state = move
         /\ after.scratch = TableText(st.state, byte, move, st.scratch)
         /\ IF st.state = "CollectingDescription" /\ byte = 20
            THEN /\ after.annots_in_record = st.annots_in_record + 1
                 /\ Len(after.out) <= Len(st.out) + 1
                 /\ SubSeq(after.out, 1, Len(st.out)) = st.out
            ELSE after.out = st.out /\ after.annots_in_record = st.annots_in_record

\* the byte the loop of parse_tal_data reads next
NextByte == tal.data[tal.st.k + 1]

\* C26: for every slice, every non-NUL byte that parse_tal_data reads before the
\* NUL padding ends the decoding moves the decoder as the four-state table
\* says: WaitingForOnset goes to CollectingOnset on '+', rejects on 0x14 and
\* 0x15 and ignores other bytes; CollectingOnset validates and goes to
\* CollectingDescription on 0x14 or to CollectingDuration on 0x15 and appends
\* otherwise, '+' included; CollectingDuration validates and goes to
\* CollectingDescription on 0x14, rejects on 0x15 and appends otherwise;
\* CollectingDescription emits and goes to WaitingForOnset on 0x14, rejects on
\* 0x15 and appends otherwise.
C26_DecoderFollowsTable ==
    [][(tal'.st # tal.st /\ NextByte # 0 /\ tal.st.zero <= 1)
         => MovesAs(tal.st, NextByte,
                    TableMove(tal.st.state, NextByte,
                              IF tal.st.state = "CollectingOnset"
                              THEN is_valid_onset(tal.st.scratch)
                              ELSE is_valid_duration(tal.st.scratch)),
                    tal'.st)]_vars

\* a slice went through all four states and is collecting a description
C26_Witness ==
    /\ tal.st.state = "CollectingDescription"
    /\ tal.st.duration
    /\ tal.st.scratch # << >>

----------------------------------------------------------------------------
(* NUL bytes inside a slice *)

\* byte j of the slice (from 1) is a NUL that neither follows 0x14 nor
\* continues a run of NUL bytes
StrayNul(data, j) ==
    /\ data[j] = 0
    /\ j = 1 \/ (data[j - 1] # 20 /\ data[j - 1] # 0)

\* a stray NUL is among the first k bytes of the slice
StrayNulRead(data, k) == \E j \in 1..k : StrayNul(data, j)

\* byte j of the slice is a single NUL right after 0x14
NulAfterDelimiter(data, j) == j > 1 /\ data[j] = 0 /\ data[j - 1] = 20

\* C27: a NUL byte at any position of the slice that is not immediately
\* preceded by 0x14, and does not continue a NUL run, aborts the parsing of the
\* slice: once it is read neither decoder adds an annotation or a count for a
\* TAL that ends after it.  A single NUL immediately after 0x14 is tolerated
\* and resets the decoder to WaitingForOnset.
C27_StrayNulAborts ==
    [][/\ StrayNulRead(tal.data, tal.st.k) => tal'.st.out = tal.st.out
       /\ StrayNulRead(tal.data, tal.count.k) => tal'.count.count = tal.count.count
       /\ (tal'.st # tal.st /\ NulAfterDelimiter(tal.data, tal.st.k + 1))
            => (~tal'.st.halt /\ tal'.st.state = "WaitingForOnset")]_vars

\* two consecutive NUL bytes are among the first k bytes of the slice
PaddingRead(data, k) == \E j \in 2..k : data[j - 1] = 0 /\ data[j] = 0

\* C28: once two consecutive NUL bytes of a slice have been read the decoding
\* of the slice is over: no byte after them changes what the decoders give, so
\* a TAL placed after the NUL padding produces neither an annotation nor a
\* count.
C28_PaddingEndsSlice ==
    [][/\ PaddingRead(tal.data, tal.st.k) => tal'.st.out = tal.st.out
       /\ PaddingRead(tal.data, tal.count.k) => tal'.count.count = tal.count.count]_vars

\* both decoders stopped at the '+' of a TAL that follows the padding, having
\* taken the annotation before the padding
C28_Witness ==
    /\ PaddingRead(tal.data, tal.st.k) /\ PaddingRead(tal.data, tal.count.k)
    /\ tal.st.halt /\ tal.count.halt
    /\ tal.data[tal.st.k + 1] = 43 /\ tal.data[tal.count.k + 1] = 43
    /\ Len(tal.st.out) = 1 /\ tal.count.count = 1

----------------------------------------------------------------------------
(* The fields of the TAL an annotation comes from *)

\* a byte of a number: a digit or '.'
NumberByte(b) == IsDigit(b) \/ b = 46

\* the place before the number that ends right before byte e of the slice
\* (0 when the number starts the slice)
NumberStart(data, e) ==
    CHOOSE j \in 0..(e - 1) :
        /\ j = 0 \/ ~NumberByte(data[j])
        /\ \A i \in (j + 1)..(e - 1) : NumberByte(data[i])

\* the 0x14 that opens the description closed by the 0x14 at byte e
DescriptionStart(data, e) ==
    CHOOSE j \in 1..(e - 1) :
        data[j] = 20 /\ \A i \in (j + 1)..(e - 1) : data[i] # 20

\* the duration the TAL gives whose fields end at the 0x14 at byte d: the number
\* after its 0x15, or -1 when the number before d follows no 0x15
FieldDuration(data, d, f) ==
    IF f > 0 /\ data[f] = 21 THEN ParseF64Ticks(SubSeq(data, f + 1, d - 1)).ticks ELSE -1

\* the byte that ends its onset: the 0x15 when there is one, else the 0x14
OnsetEnd(data, d, f) == IF f > 0 /\ data[f] = 21 THEN f ELSE d

OnsetBefore(data, o) == ParseF64Ticks(SubSeq(data, NumberStart(data, o) + 1, o - 1)).ticks

\* duration and onset written in the TAL that the 0x14 at byte e completes
OwnDuration(data, e) ==
    FieldDuration(data, DescriptionStart(data, e),
                  NumberStart(data, DescriptionStart(data, e)))
OwnOnset(data, e) ==
    OnsetBefore(data, OnsetEnd(data, DescriptionStart(data, e),
                               NumberStart(data, DescriptionStart(data, e))))

\* C29: every emitted annotation carries the duration of its own TAL, -1 when
\* that TAL has no 0x15 duration field and else that field's value in ticks,
\* and the onset of its own TAL: onset, duration flag and duration text left by
\* an earlier TAL of the slice, one abandoned by a tolerated NUL reset
\* included, never carry over into a later annotation.
C29_OwnDurationAndOnset ==
    [][Len(tal'.st.out) > Len(tal.st.out)
         => /\ tal'.st.out[Len(tal'.st.out)].duration = OwnDuration(tal.data, tal.st.k + 1)
            /\ tal'.st.out[Len(tal'.st.out)].onset
                 = OwnOnset(tal.data, tal.st.k + 1) - tal.subsecond]_vars

----------------------------------------------------------------------------
(* Signed onsets *)

\* every onset of the slice is written with '-': the slice has a '-' first or
\* right after a NUL, no other '-' and no '+'
AllMinus(data) ==
    /\ \E i \in 1..Len(data) : data[i] = 45
    /\ \A i \in 1..Len(data) :
          /\ data[i] # 43
          /\ data[i] = 45 => (i = 1 \/ data[i - 1] = 0)

\* the same slice with every onset written with '+'
Plussed(data) == [ i \in 1..Len(data) |-> IF data[i] = 45 THEN 43 ELSE data[i] ]

\* the annotation whose raw onset (the onset before the subsecond is taken
\* off) is the negation of that of `a`
Negated(a, subsecond) == [a EXCEPT !.onset = 0 - (a.onset + subsecond) - subsecond]

NegatedAll(annots, subsecond) ==
    [ i \in 1..Len(annots) |-> Negated(annots[i], subsecond) ]

\* both passes over the slice have ended
Decoded == ~Looping(tal.data, tal.count) /\ ~Looping(tal.data, tal.st)

\* C30: signed onsets are treated symmetrically: a TAL whose onset is written
\* with a leading '-' is accepted and decoded like the same TAL with a leading
\* '+', and yields the annotation with the negated raw onset; the counting pass
\* counts it likewise.
C30_SignedOnsetsSymmetric ==
    (Decoded /\ AllMinus(tal.data))
      => /\ tal.st.out
             = NegatedAll(parse_tal_data(Plussed(tal.data), tal.first, tal.subsecond),
                          tal.subsecond)
         /\ tal.count.count
             = quick_parse_tal_for_count(Plussed(tal.data), FALSE, tal.first)[1]

----------------------------------------------------------------------------
(* Where the samples are read from *)

\* the slot of the file (from 1) that is its i-th non-annotation slot (i from 0)
UserSlot(f, i) ==
    CHOOSE s \in 1..Len(f.slots) :
        /\ f.slots[s].label # AnnotationLabel
        /\ Cardinality({ j \in 1..(s - 1) : f.slots[j].label # AnnotationLabel }) = i

\* the file offset of the sample at logical position p of slot s, as the layout
\* of the file has it
LayoutOffset(f, s, p) ==
    FileHeaderBytes(f) + (p \div f.slots[s].spr) * RecordBytes(f.slots)
    + SlotStart(f.slots, s) + (p % f.slots[s].spr) * 2

\* the file offset the j-th 2-byte word of the reads `io` was read from
RECURSIVE WordOffset(_, _)
WordOffset(io, j) ==
    IF 2 * j <= Head(io).len THEN Head(io).off + 2 * (j - 1)
    ELSE WordOffset(Tail(io), j - Head(io).len \div 2)

\* C31: the sample at logical position p of user signal i is read from file
\* offset header_bytes + (p div samples_per_record) x record_size
\* + buffer_offset(s) + (p mod samples_per_record) x 2, where s is the i-th
\* non-annotation slot in declared order: annotation slots before s shift the
\* offset and are never selected as s.
C31_SampleOffset ==
    (AfterValidOp /\ call.op = "read_digital" /\ ret.kind = "Ok") =>
        \A j \in 1..Len(ret.samples) :
            WordOffset(ret.io, j)
              = LayoutOffset(file, UserSlot(file, call.signal),
                             CursorBefore(call.signal) + j - 1)

\* a read of the second user signal, behind an annotation slot, that started
\* inside the first record and went on into the second
C31_Witness ==
    /\ AfterValidOp /\ call.op = "read_digital" /\ ret.kind = "Ok"
    /\ file.slots = << Fp1, Ann, Fp2 >> /\ call.signal = 1
    /\ CursorBefore(1) = 1 /\ Len(ret.samples) = 3

----------------------------------------------------------------------------
(* The layout of a data record *)

\* 2 x samples-per-record summed over the first n slots of the file
RECURSIVE BytesOfSlots(_, _)
BytesOfSlots(f, n) == IF n = 0 THEN 0 ELSE BytesOfSlots(f, n - 1) + 2 * f.slots[n].spr

\* C32: in the slot list built at open, slot 0 has byte offset 0, each later
\* slot's offset is the previous slot's offset plus 2 x the previous slot's
\* samples-per-record (annotation slots included), and record_size is the sum
\* of 2 x samples-per-record over all slots; the byte ranges of the slots
\* inside a record never overlap, and header_size is (on-disk signal count + 1)
\* x 256.
C32_SlotLayout ==
    Opened =>
        /\ Len(signal_info) = Len(file.slots)
        /\ signal_info[1].buffer_offset = 0
        /\ \A s \in 2..Len(signal_info) :
              signal_info[s].buffer_offset
                = signal_info[s - 1].buffer_offset + 2 * file.slots[s - 1].spr
        /\ record_size = BytesOfSlots(file, Len(file.slots))
        /\ \A s, t \in 1..Len(signal_info) :
              s < t => signal_info[s].buffer_offset + 2 * file.slots[s].spr
                         <= signal_info[t].buffer_offset
        /\ header_size = (Len(file.slots) + 1) * 256

\* an opened file of three slots, the annotation slot in the middle
C32_Witness ==
    /\ Opened /\ file.slots = << Fp1, Ann, Fp2 >>
    /\ signal_info[3].buffer_offset = 2 + 2 * AnnSpr
    /\ record_size = 6 + 2 * AnnSpr

----------------------------------------------------------------------------
(* The value of a sample *)

\* the byte of the file at file offset `off` (the data records follow the header)
FileByte(f, off) == f.data[off - FileHeaderBytes(f) + 1]

\* the little-endian 16-bit two's-complement integer of the bytes lo, hi
SignExtended(lo, hi) ==
    IF lo + 256 * hi >= 32768 THEN lo + 256 * hi - 65536 ELSE lo + 256 * hi

\* the integer stored at logical position p of slot s of the file
StoredValue(f, s, p) ==
    SignExtended(FileByte(f, LayoutOffset(f, s, p)), FileByte(f, LayoutOffset(f, s, p) + 1))

\* min(max(v, digital_min), digital_max) for the descriptor d
Clamped(v, d) ==
    IF (IF v >= d.dmin THEN v ELSE d.dmin) <= d.dmax
    THEN (IF v >= d.dmin THEN v ELSE d.dmin) ELSE d.dmax

\* C33: each returned digital value equals min(max(v, digital_min),
\* digital_max), where v is the two bytes (lo, hi) at the computed offset read
\* as a little-endian 16-bit two's-complement integer and sign-extended
\* (lo + 256 x hi, minus 65536 when that is >= 32768); raw bytes 0x00 0x80 with
\* digital_min = -32000 give -32000.
C33_ClampedSignExtended ==
    (AfterValidOp /\ call.op = "read_digital" /\ ret.kind = "Ok") =>
        \A j \in 1..Len(ret.samples) :
            ret.samples[j]
              = Clamped(StoredValue(file, UserSlot(file, call.signal),
                                    CursorBefore(call.signal) + j - 1),
                        file.slots[UserSlot(file, call.signal)])

\* a read that returned -32000 for the stored bytes 0x00 0x80 of a signal whose
\* digital_min is -32000
C33_Witness ==
    /\ AfterValidOp /\ call.op = "read_digital" /\ ret.kind = "Ok"
    /\ file.slots = << Cz >> /\ CursorBefore(0) = 5 /\ Len(ret.samples) = 1
    /\ FileByte(file, LayoutOffset(file, 1, 5)) = 0
    /\ FileByte(file, LayoutOffset(file, 1, 5) + 1) = 128
    /\ ret.samples[1] = -32000

----------------------------------------------------------------------------
(* The I/O of a read *)

\* the data record that holds logical position p of slot s
RecordOf(f, s, p) == p \div f.slots[s].spr

\* the first and the last position of the range p .. p + n - 1 that lie in the
\* m-th record the range touches (m from 1)
FirstIn(f, s, p, m) ==
    IF m = 1 THEN p ELSE (RecordOf(f, s, p) + m - 1) * f.slots[s].spr
LastIn(f, s, p, n, m) ==
    IF (RecordOf(f, s, p) + m) * f.slots[s].spr - 1 <= p + n - 1
    THEN (RecordOf(f, s, p) + m) * f.slots[s].spr - 1 ELSE p + n - 1

\* the reads `io` are one per data record that the n samples from position p of
\* slot s touch, each covering the samples of the range in that record
OnePerRecord(f, s, p, n, io) ==
    /\ Len(io) = RecordOf(f, s, p + n - 1) - RecordOf(f, s, p) + 1
    /\ \A m \in 1..Len(io) :
          /\ io[m].off = LayoutOffset(f, s, FirstIn(f, s, p, m))
          /\ io[m].len = 2 * (LastIn(f, s, p, n, m) - FirstIn(f, s, p, m) + 1)

\* C34: one read_digital call issues exactly one seek and one read per data
\* record that the returned sample range touches, each covering the contiguous
\* samples of that record, and never one I/O per sample; a read that stays
\* inside one record issues a single I/O.
C34_OneReadPerRecord ==
    (AfterValidOp /\ call.op = "read_digital" /\ ret.kind = "Ok" /\ ret.samples # << >>) =>
        OnePerRecord(file, UserSlot(file, call.signal), CursorBefore(call.signal),
                     Len(ret.samples), ret.io)

\* three samples that span two records read in two I/Os, the second of two
\* samples
C34_Witness ==
    /\ AfterValidOp /\ call.op = "read_digital" /\ ret.kind = "Ok"
    /\ file.slots = << Cz >> /\ CursorBefore(0) = 2 /\ Len(ret.samples) = 3
    /\ Len(ret.io) = 2 /\ ret.io[2].len = 4

----------------------------------------------------------------------------
(* The annotation count of the header *)

\* the TALs that give an annotation and stand in the records the counting
\* pass scans
CountedPlaces == { pl \in OwedPlaces : pl[1] < RecordsToScan }

----------------------------------------------------------------------------
(* The two decoders side by side *)

\* C36: the counting decoder and the full decoder agree: for every slice,
\* quick_parse_tal_for_count returns exactly the number of annotations that
\* parse_tal_data emits for that slice (so that for a continuous file of at
\* most 100 data records read without I/O error header.annotations_in_file
\* equals annotations().len()).
C36_DecodersAgree ==
    Decoded => tal.count.count = Len(tal.st.out)

----------------------------------------------------------------------------
(* The order of the header validations *)

\* the ordinary signals of a list, by declared position, with a range of a
\* single value
FlatSignals(slots) ==
    { i \in 1..Len(slots) :
        /\ slots[i].label # AnnotationLabel
        /\ (slots[i].pmin = slots[i].pmax \/ slots[i].dmin = slots[i].dmax) }

\* the error of the first flat signal: its physical range before its digital
FlatError(slots, i) ==
    IF slots[i].pmin = slots[i].pmax THEN "PhysicalMinEqualsMax"
    ELSE "DigitalMinEqualsMax"

\* the error of the first failing check, in the fixed order: version, signal
\* count, header-size field, reservation, start date/time, then the signals
FirstFailing(faults, slots) ==
    IF "version" \in faults THEN "UnsupportedFileType"
    ELSE IF "count" \in faults THEN "InvalidSignalCount"
    ELSE IF "size" \in faults THEN "InvalidHeader"
    ELSE IF "reserved" \in faults THEN "UnsupportedFileType"
    ELSE IF "date" \in faults THEN "FormatError"
    ELSE IF FlatSignals(slots) # {}
    THEN FlatError(slots, CHOOSE i \in FlatSignals(slots) :
                              \A j \in FlatSignals(slots) : i <= j)
    ELSE "Ok"

\* C37: when a header violates several validations at once, open reports the
\* error of the first failing check in the fixed order version
\* (UnsupportedFileType), signal count (InvalidSignalCount), header-size field
\* (InvalidHeader), reservation (UnsupportedFileType), start date/time
\* (FormatError), then per non-annotation signal in declared order physical
\* range before digital range; no reader is produced in any of these cases.
C37_FirstFailingCheck ==
    (call.op = "open" /\ file \in FaultyFiles) =>
        \A faults \in SUBSET FaultNames, w \in 0..1 :
            (file.main = MainOf(file.slots, faults, w)
             /\ FirstFailing(faults, file.slots) # "Ok") =>
                /\ ret.kind = FirstFailing(faults, file.slots)
                /\ status = "failed"
                /\ header = NoHeader /\ signal_info = << >>

\* a header wrong in its signal count, header-size field, reservation and
\* start date at once, over a flat signal: the signal count is reported
C37_Witness ==
    /\ call.op = "open" /\ status = "failed"
    /\ file.slots = << [Fp1 EXCEPT !.pmin = 100], EMG >>
    /\ file.main = MainOf(file.slots, {"count", "size", "reserved", "date"}, 0)
    /\ ret.kind = "InvalidSignalCount"

----------------------------------------------------------------------------
(* Termination of the loops *)

\* one iteration of a decoder loop over `data`, from st to st2: the byte it
\* reads lies in the slice, and it moves the byte index one on, not past the
\* last byte, or breaks off
Advances(data, st, st2) ==
    /\ st.k + 1 <= Len(data)
    /\ \/ st2.k = st.k + 1 /\ st2.k <= Len(data) - 1 /\ ~st2.halt
       \/ st2.k = st.k /\ st2.halt

\* the reads `io` of a read of n samples from position p of slot s: at least
\* one sample each, at most one per data record the range touches
ChunksBounded(f, s, p, n, io) ==
    /\ \A m \in 1..Len(io) : io[m].len >= 2
    /\ Len(io) <= (IF n = 0 THEN 0
                   ELSE RecordOf(f, s, p + n - 1) - RecordOf(f, s, p) + 1)

\* the samples a read of `count` from the cursor before the call can return
Readable(i, count) == Min(count, Max(SamplesInFile(i) - CursorBefore(i), 0))

----------------------------------------------------------------------------
(* The end of open on an accepted header *)

\* the kinds of error the reader returns
TypedErrors ==
    { "FileNotFound", "UnsupportedFileType", "InvalidHeader", "InvalidSignalCount",
      "InvalidSignalIndex", "PhysicalMinEqualsMax", "DigitalMinEqualsMax",
      "FormatError", "FileReadError" }

\* the header of the file passes the validations of parse_header
HeaderAccepted(f) ==
    /\ MainError(f.main) = "Ok"
    /\ \A i \in 1..Len(f.slots) :
          f.slots[i].label # AnnotationLabel =>
              (f.slots[i].pmin # f.slots[i].pmax /\ f.slots[i].dmin # f.slots[i].dmax)

\* C39: for every file whose header passes validation, whatever the annotation
\* slices contain and whatever sizes the slots declare (an annotation signal
\* with zero samples per record, i.e. an empty slice, included), open ends by
\* returning a reader or a typed error: no step of the two TAL passes indexes
\* outside a slice or buffer or subtracts below zero.
C39_OpenReturns ==
    (call.op = "open" /\ HeaderAccepted(file)) =>
        \/ ret.kind = "Ok" /\ status = "open"
        \/ ret.kind \in TypedErrors /\ status = "failed"

====
